---- MODULE Spec2Model ----
(***************************************************************************)
(* Ledger engine of SpectrumEncoder: tip selection, weight propagation,    *)
(* DAG validation and pruning (shared/messageEncoding.ts, class DAGUtils), *)
(* the IndexedDB vertex store (client/src/lib/dagStorage.ts), the replay   *)
(* guard (shared/crypto.ts, NonceTracker) and the receive path of the peer *)
(* node (client/src/lib/p2pNetwork.ts).                                    *)
(*                                                                         *)
(* Hashes are modelled as the tuple of the hashed fields (a collision-free *)
(* SHA-256); signatures as the pair (signing key, signed bytes).           *)
(***************************************************************************)
EXTENDS Integers, Sequences, FiniteSets, Bags, TLC

VARIABLES
  pc,          \* position of the driver of the pure-function specifications
  input,       \* DagVertex[] handed to a DAGUtils function
  seed,        \* randomSeed handed to selectTips (NoSeed: argument omitted)
  result,      \* what the DAGUtils functions returned
  store,       \* IndexedDB object store 'vertices': set of DagVertex, keyed by vertexHash
  now,         \* Date.now()
  procs,       \* the DAGStorage operations, or the handleIncomingMessage calls, in flight
  created,     \* history: the number of creations started
  overlap,     \* history: an operation started while another was in flight
  seenNonces,  \* NonceTracker.seenNonces: set of [nonce, timestamp]
  nonceLog,    \* history of hasSeenNonce calls
  stats,       \* P2PNetwork.stats: Map of peer id to PeerStats
  dispatched   \* history: messages handed to the topic handlers

vars == <<pc, input, seed, result, store, now, procs, created, overlap,
          seenNonces, nonceLog, stats, dispatched>>

dagVars   == <<pc, input, seed, result>>
storeVars == <<store, procs, created, overlap>>
nonceVars == <<seenNonces, nonceLog>>
netVars   == <<stats, dispatched>>

(***************************************************************************)
(* Bounds of the model.                                                    *)
(***************************************************************************)
MaxDepth == 2          \* depth values of hand-built vertices: 0..MaxDepth
MaxClock == 3          \* the store machine's clock runs 0..MaxClock (ms)
MaxCreated == 3        \* a creation starts only while fewer vertices have been stored

(***************************************************************************)
(* Values.                                                                 *)
(***************************************************************************)
GENESIS_HASH == <<0>>
NoDate == -1           \* a null anchorTimestamp / createdAt
NoSeed == -1000000     \* selectTips called without randomSeed (undefined)
H(i) == <<i>>          \* the vertexHash of the i-th hand-built vertex
P(i) == <<"p", i>>     \* a payloadHash of a hand-built vertex

Min(a, b) == IF a < b THEN a ELSE b
Max(a, b) == IF a > b THEN a ELSE b
Range(s) == {s[i] : i \in 1..Len(s)}

RECURSIVE SumSeq(_)
SumSeq(s) == IF s = <<>> THEN 0 ELSE Head(s) + SumSeq(Tail(s))

(* new Map(); for (v of vertices) map.set(v.vertexHash, v): the last entry wins *)
VertexMap(vertices) ==
  [h \in {vertices[i].vertexHash : i \in 1..Len(vertices)} |->
     vertices[CHOOSE i \in 1..Len(vertices) :
                /\ vertices[i].vertexHash = h
                /\ \A j \in (i+1)..Len(vertices) : vertices[j].vertexHash # h]]

(* The approvers index of selectTips and recalculateAllWeights: for each v in
   order, v is pushed on the list of tipReference1 and then on the list of
   tipReference2 (twice on the same list when both name the same parent). *)
RECURSIVE ApproverList(_, _)
ApproverList(vertices, h) ==
  IF vertices = <<>> THEN <<>>
  ELSE LET v == Head(vertices)
       IN (IF v.tipReference1 = h THEN <<v>> ELSE <<>>)
          \o (IF v.tipReference2 = h THEN <<v>> ELSE <<>>)
          \o ApproverList(Tail(vertices), h)

(***************************************************************************)
(* DAGUtils.hasCycles: depth-first search along the parent references with *)
(* a visited set and a recursion stack.  The search state is the record    *)
(* [found, visited, recursionStack]; found is dfs's return value.          *)
(***************************************************************************)
RECURSIVE dfs(_, _, _)
dfs(vertexMap, hash, st) ==
  IF hash \in st.recursionStack THEN [st EXCEPT !.found = TRUE]
  ELSE IF hash \in st.visited THEN st
  ELSE
    LET st1 == [st EXCEPT !.visited = @ \cup {hash},
                          !.recursionStack = @ \cup {hash}]
        known == hash \in DOMAIN vertexMap
        st2 == IF known /\ vertexMap[hash].tipReference1 # GENESIS_HASH
               THEN dfs(vertexMap, vertexMap[hash].tipReference1, st1)
               ELSE st1
        st3 == IF st2.found THEN st2
               ELSE IF known /\ vertexMap[hash].tipReference2 # GENESIS_HASH
               THEN dfs(vertexMap, vertexMap[hash].tipReference2, st2)
               ELSE st2
    IN IF st3.found THEN st3
       ELSE [st3 EXCEPT !.recursionStack = @ \ {hash}]

RECURSIVE hasCyclesFrom(_, _, _, _)
hasCyclesFrom(vertices, vertexMap, i, st) ==
  IF i > Len(vertices) THEN FALSE
  ELSE IF vertices[i].vertexHash \in st.visited
       THEN hasCyclesFrom(vertices, vertexMap, i + 1, st)
  ELSE LET st1 == dfs(vertexMap, vertices[i].vertexHash, st)
       IN IF st1.found THEN TRUE
          ELSE hasCyclesFrom(vertices, vertexMap, i + 1, st1)

hasCycles_FirstParentOnly(vertices) ==
  LET OnlyTip1(v) == [v EXCEPT !.tipReference2 = GENESIS_HASH]
      vs == [i \in 1..Len(vertices) |-> OnlyTip1(vertices[i])]
  IN hasCyclesFrom(vs, VertexMap(vs), 1,
                   [found |-> FALSE, visited |-> {}, recursionStack |-> {}])

hasCycles(vertices) ==
  hasCyclesFrom(vertices, VertexMap(vertices), 1,
                [found |-> FALSE, visited |-> {}, recursionStack |-> {}])

(***************************************************************************)
(* DAGUtils.isValidDAG (full variant), check by check.                     *)
(***************************************************************************)
Hashes(vertices) == {vertices[i].vertexHash : i \in 1..Len(vertices)}

(* Check 1: every non-genesis reference is the vertexHash of a vertex *)
ReferencesExist(vertices) ==
  \A i \in 1..Len(vertices) :
     /\ vertices[i].tipReference1 = GENESIS_HASH
          \/ vertices[i].tipReference1 \in Hashes(vertices)
     /\ vertices[i].tipReference2 = GENESIS_HASH
          \/ vertices[i].tipReference2 \in Hashes(vertices)

(* vertices.find(vertex => vertex.vertexHash === vHash): the first match *)
FindByHash(vertices, vHash) ==
  vertices[CHOOSE i \in 1..Len(vertices) :
             /\ vertices[i].vertexHash = vHash
             /\ \A j \in 1..(i-1) : vertices[j].vertexHash # vHash]

(* payloadMap.get(payloadHash): the vertexHashes carrying that payload, in order *)
PayloadGroup(vertices, payloadHash) ==
  LET same == SelectSeq(vertices, LAMBDA v : v.payloadHash = payloadHash)
  IN [i \in 1..Len(same) |-> same[i].vertexHash]

TipSets_FirstTipOnly(vertices, payloadHash) ==
  LET group == PayloadGroup(vertices, payloadHash)
  IN {FindByHash(vertices, group[i]).tipReference1 : i \in 1..Len(group)}

(* tipSets of one payload group: `${v.tipReference1},${v.tipReference2}` *)
TipSets(vertices, payloadHash) ==
  LET group == PayloadGroup(vertices, payloadHash)
  IN {<<FindByHash(vertices, group[i]).tipReference1,
        FindByHash(vertices, group[i]).tipReference2>> : i \in 1..Len(group)}

(* Check 2: no payloadHash is approved with two different parent pairs *)
NoConflictingApprovals(vertices) ==
  \A i \in 1..Len(vertices) :
     Len(PayloadGroup(vertices, vertices[i].payloadHash)) > 1
       => Cardinality(TipSets(vertices, vertices[i].payloadHash)) <= 1

(* depths.get(hash) || 0 *)
DepthOf(vertices, hash) ==
  IF hash \in Hashes(vertices) THEN VertexMap(vertices)[hash].depth ELSE 0

DepthOrdering_NonStrict(vertices) ==
  \A i \in 1..Len(vertices) :
     /\ vertices[i].tipReference1 # GENESIS_HASH
          => ~(vertices[i].depth < DepthOf(vertices, vertices[i].tipReference1))
     /\ vertices[i].tipReference2 # GENESIS_HASH
          => ~(vertices[i].depth < DepthOf(vertices, vertices[i].tipReference2))

(* Check 3: a vertex is deeper than each non-genesis parent *)
DepthOrdering(vertices) ==
  \A i \in 1..Len(vertices) :
     /\ vertices[i].tipReference1 # GENESIS_HASH
          => ~(vertices[i].depth <= DepthOf(vertices, vertices[i].tipReference1))
     /\ vertices[i].tipReference2 # GENESIS_HASH
          => ~(vertices[i].depth <= DepthOf(vertices, vertices[i].tipReference2))

(* anchoredStatus.get(hash) === false: the hash is known and not 'true' *)
KnownUnanchored(vertices, hash) ==
  /\ hash \in Hashes(vertices)
  /\ VertexMap(vertices)[hash].isAnchored # "true"

AnchoringRules_NoParentCheck(vertices) ==
  \A i \in 1..Len(vertices) :
     vertices[i].isAnchored = "true" =>
        ~(/\ vertices[i].anchorTimestamp # NoDate
          /\ vertices[i].createdAt # NoDate
          /\ vertices[i].anchorTimestamp < vertices[i].createdAt)

(* Check 4: an anchored vertex is anchored no earlier than it was created,
   and its non-genesis parents are anchored *)
AnchoringRules(vertices) ==
  \A i \in 1..Len(vertices) :
     vertices[i].isAnchored = "true" =>
        /\ ~(/\ vertices[i].anchorTimestamp # NoDate
             /\ vertices[i].createdAt # NoDate
             /\ vertices[i].anchorTimestamp < vertices[i].createdAt)
        /\ vertices[i].tipReference1 # GENESIS_HASH
             => ~KnownUnanchored(vertices, vertices[i].tipReference1)
        /\ vertices[i].tipReference2 # GENESIS_HASH
             => ~KnownUnanchored(vertices, vertices[i].tipReference2)

isValidDAG(vertices) ==
  IF Len(vertices) = 0 THEN TRUE
  ELSE IF hasCycles(vertices) THEN FALSE
  ELSE IF ~ReferencesExist(vertices) THEN FALSE
  ELSE IF ~NoConflictingApprovals(vertices) THEN FALSE
  ELSE IF ~DepthOrdering(vertices) THEN FALSE
  ELSE AnchoringRules(vertices)

(***************************************************************************)
(* DAGUtils.recalculateAllWeights                                          *)
(***************************************************************************)
MapSet(f, k, v) == [x \in DOMAIN f \cup {k} |-> IF x = k THEN v ELSE f[x]]

(* [...vertices].sort((a, b) => b.depth - a.depth): stable, deepest first *)
RECURSIVE SortByDepthDesc(_)
SortByDepthDesc(vertices) ==
  IF Len(vertices) = 0 THEN <<>>
  ELSE LET rest == SortByDepthDesc(SubSeq(vertices, 1, Len(vertices) - 1))
           v == vertices[Len(vertices)]
           k == Cardinality({j \in 1..Len(rest) : rest[j].depth >= v.depth})
       IN SubSeq(rest, 1, k) \o <<v>> \o SubSeq(rest, k + 1, Len(rest))

(* weights.get(hash) || 1 *)
WeightOr1(weights, hash) ==
  IF hash \in DOMAIN weights /\ weights[hash] # 0 THEN weights[hash] ELSE 1

(* directApprovers.map(v => weights.get(v.vertexHash) || 1) *)
ChildWeights(vertices, weights, hash) ==
  LET directApprovers == ApproverList(vertices, hash)
  IN [k \in 1..Len(directApprovers) |->
        WeightOr1(weights, directApprovers[k].vertexHash)]

RECURSIVE WeightsFold(_, _, _, _)
WeightsFold(vertices, sorted, i, weights) ==
  IF i > Len(sorted) THEN weights
  ELSE LET hash == sorted[i].vertexHash
           w == IF Len(ApproverList(vertices, hash)) = 0 THEN 1
                ELSE 1 + SumSeq(ChildWeights(vertices, weights, hash))
       IN WeightsFold(vertices, sorted, i + 1, MapSet(weights, hash, w))

recalculateAllWeights(vertices) ==
  WeightsFold(vertices, SortByDepthDesc(vertices), 1, <<>>)

(***************************************************************************)
(* DAGUtils.pruneOldVertices(vertices, maxAge) at Date.now() = t           *)
(***************************************************************************)
PruneKeeps(v, maxAge, t) ==
  \/ v.isAnchored = "true"
  \/ v.createdAt # NoDate /\ v.createdAt > t - maxAge

pruneOldVertices_DropOrphans(vertices, maxAge, t) ==
  SelectSeq(vertices, LAMBDA v :
     /\ PruneKeeps(v, maxAge, t)
     /\ {v.tipReference1, v.tipReference2}
          \subseteq {GENESIS_HASH} \cup Hashes(vertices))

pruneOldVertices(vertices, maxAge, t) ==
  SelectSeq(vertices, LAMBDA v : PruneKeeps(v, maxAge, t))

(***************************************************************************)
(* DAGUtils.seededRandom and Math.random.                                  *)
(* A generator is [seeded, exact, state].  The source computes in doubles. *)
(* Where its doubles are exact the model follows them: the state of an     *)
(* exact generator is a multiple of 1/2, counted in units of 1/SEED_UNIT,  *)
(* and state * 9301 + 49297 and the remainder are exact on such values.    *)
(* Where they are rounded (randomSeed * 1.618 that is no multiple of 1/2)  *)
(* the generator is seeded but not exact and the model leaves its draws    *)
(* open; its state field keeps the sign only (-1: the draws may be         *)
(* negative).  An unseeded generator (Math.random) may return any value of *)
(* [0, 1).                                                                 *)
(***************************************************************************)
RNG_MULT == 9301
RNG_INC == 49297
RNG_MOD == 233280
SEED_UNIT == 2
GOLDEN_NUM == 809      \* 1.618 = GOLDEN_NUM / (GOLDEN_DEN * SEED_UNIT)
GOLDEN_DEN == 250
ExactSeedMax == 1000   \* randomSeed * 1.618 is a multiple of 1/2 without rounding
ALPHA_INV == 1000      \* 1 / alpha
maxSteps == 100
EntryWindow == 10

Unseeded == [seeded |-> FALSE, exact |-> FALSE, state |-> 0]
ExactRng(state) == [seeded |-> TRUE, exact |-> TRUE, state |-> state]
RoundedRng(negative) ==
  [seeded |-> TRUE, exact |-> FALSE, state |-> IF negative THEN -1 ELSE 0]

(* (a * b) % m without leaving 32 bits, 0 <= a < m *)
RECURSIVE MulMod(_, _, _)
MulMod(a, b, m) ==
  IF b = 0 THEN 0
  ELSE LET d == (2 * MulMod(a, b \div 2, m)) % m
       IN IF b % 2 = 1 THEN (d + a) % m ELSE d

(* state = (state * 9301 + 49297) % 233280, % keeping the sign of the
   dividend; state in units of 1/SEED_UNIT *)
LcgNext(state) ==
  LET m == RNG_MOD * SEED_UNIT
      c == RNG_INC * SEED_UNIT
      a == IF state >= 0 THEN state ELSE -state
      p == MulMod(a % m, RNG_MULT, m)
  IN IF state >= 0 THEN (p + c) % m
     ELSE IF a <= c \div RNG_MULT THEN c - a * RNG_MULT
     ELSE -((p - c) % m)

(* a / b <= c / d for a, c >= 0 and b, d > 0, by continued fractions *)
RECURSIVE LeqFrac(_, _, _, _)
LeqFrac(a, b, c, d) ==
  IF a \div b # c \div d THEN a \div b < c \div d
  ELSE IF a % b = 0 THEN TRUE
  ELSE IF c % d = 0 THEN FALSE
  ELSE LeqFrac(d, c % d, b, a % b)

(* Math.floor(rng() * k): the possible values, each with the generator after
   the draw *)
FloorDraws(rng, k) ==
  IF rng.seeded /\ rng.exact
  THEN LET s == LcgNext(rng.state)
       IN {[value |-> (s * k) \div (RNG_MOD * SEED_UNIT), rng |-> ExactRng(s)]}
  ELSE IF rng.seeded
  THEN {[value |-> i, rng |-> rng] :
          i \in (IF rng.state < 0 THEN -k ELSE 0)..(k - 1)}
  ELSE {[value |-> i, rng |-> rng] : i \in 0..(k - 1)}

(* v.cumulativeWeight > 0 ? v.cumulativeWeight : 1 *)
WalkWeight(v) == IF v.cumulativeWeight > 0 THEN v.cumulativeWeight ELSE 1

(***************************************************************************)
(* Math.exp(alpha * weight).  The weighted choice depends on the ratios of *)
(* these values only, so each is taken relative to the smallest weight     *)
(* among the approvers: exp(alpha * d) for the difference d, enclosed      *)
(* between ExpLo(d) and ExpHi(d) in units of 1/EXP_SCALE.  The enclosure   *)
(* is the Taylor series summed in integers, every term rounded down; for   *)
(* d = 0 it is the single value EXP_SCALE.                                 *)
(***************************************************************************)
EXP_SCALE == 10000000
ExpSlack == 25         \* what the rounded-down terms and the tail can lose
MaxSpread == 1000      \* largest d the enclosure is made for
ExpFiniteMax == 700000 \* weights up to here keep totalWeight finite

(* t * d / (ALPHA_INV * n) rounded down, without leaving 32 bits *)
NextTerm(t, d, n) ==
  LET D == ALPHA_INV * n
  IN (t \div D) * d + ((t % D) * d) \div D

RECURSIVE ExpTerms(_, _, _)
ExpTerms(t, d, n) ==
  IF t = 0 THEN 0 ELSE t + ExpTerms(NextTerm(t, d, n), d, n + 1)

ExpLo(d) == IF d = 0 THEN EXP_SCALE ELSE ExpTerms(EXP_SCALE, d, 1) - 1
ExpHi(d) == IF d = 0 THEN EXP_SCALE ELSE ExpTerms(EXP_SCALE, d, 1) + ExpSlack

(* The loop over validApprovers with random = rng() * totalWeight, rng() =
   s / (RNG_MOD * SEED_UNIT): the approvers the loop can stop at.  Approver i
   stops it when random is at most the sum of the weights up to i; with the
   enclosures that is certain (below the lower end), excluded (above the
   upper end) or, between the two and where the doubles decide a tie, left
   open. *)
WeightedPicks(s, validApprovers) ==
  LET n == Len(validApprovers)
      w == [i \in 1..n |-> WalkWeight(validApprovers[i])]
      least == CHOOSE x \in {w[i] : i \in 1..n} : \A i \in 1..n : x <= w[i]
      lo == [i \in 1..n |-> ExpLo(w[i] - least)]
      hi == [i \in 1..n |-> ExpHi(w[i] - least)]
      m == RNG_MOD * SEED_UNIT
      Surely(i) ==
        LET below == SumSeq(SubSeq(lo, 1, i))
            rest == SumSeq(SubSeq(hi, i + 1, n))
        IN ~ LeqFrac(below, below + rest, s, m)
      Possibly(i) ==
        LET below == SumSeq(SubSeq(hi, 1, i))
            rest == SumSeq(SubSeq(lo, i + 1, n))
        IN LeqFrac(s, m, below, below + rest)
  IN IF s <= 0 THEN {1}
     ELSE IF \E i \in 1..n : w[i] - least > MaxSpread \/ w[i] > ExpFiniteMax
     THEN 1..n
     ELSE {i \in 1..n : Possibly(i) /\ \A j \in 1..(i - 1) : ~ Surely(j)}

(* the weighted choice of the next vertex among validApprovers, each with
   the generator after the draw *)
NextDraws(rng, validApprovers) ==
  IF rng.seeded /\ rng.exact
  THEN LET s == LcgNext(rng.state)
       IN {[current |-> validApprovers[i], rng |-> ExactRng(s)] :
             i \in WeightedPicks(s, validApprovers)}
  ELSE {[current |-> validApprovers[i], rng |-> rng] :
           i \in 1..Len(validApprovers)}

(***************************************************************************)
(* DAGUtils.performRandomWalk over the unanchored vertices.  The walk is   *)
(* followed for all outcomes of the generator at once: frontier holds the  *)
(* possible [current, rng] of the walks under way, done the vertices       *)
(* returned so far.                                                        *)
(***************************************************************************)
Threw == [threw |-> TRUE]

(* approvers.get(current.vertexHash), without those with a parent outside vertexMap *)
ValidApprovers(vertices, current) ==
  SelectSeq(ApproverList(vertices, current.vertexHash),
    LAMBDA approver :
      /\ approver.tipReference1 = GENESIS_HASH
           \/ approver.tipReference1 \in Hashes(vertices)
      /\ approver.tipReference2 = GENESIS_HASH
           \/ approver.tipReference2 \in Hashes(vertices))

(* one pass of the while loop for every walk still under way *)
WalkStep(vertices, st) ==
  LET atTip == {f \in st.frontier :
                  Len(ValidApprovers(vertices, f.current)) = 0}
  IN [frontier |-> UNION {NextDraws(f.rng, ValidApprovers(vertices, f.current)) :
                            f \in st.frontier \ atTip},
      done |-> st.done \cup {f.current : f \in atTip}]

(* n passes of the loop (split in halves to keep the evaluation shallow) *)
RECURSIVE WalkSteps(_, _, _)
WalkSteps(vertices, st, n) ==
  IF n = 0 \/ st.frontier = {} THEN st
  ELSE IF n = 1 THEN WalkStep(vertices, st)
  ELSE WalkSteps(vertices, WalkSteps(vertices, st, n \div 2), n - n \div 2)

(* while (steps < maxSteps) {...}; return current *)
WalkFrom(vertices, start) ==
  LET st == WalkSteps(vertices, [frontier |-> start, done |-> {}], maxSteps)
  IN st.done \cup {f.current : f \in st.frontier}

(* the vertices a walk may return; Threw when the entry index is outside the array *)
performRandomWalk(vertices, rng) ==
  LET entries == FloorDraws(rng, Min(EntryWindow, Len(vertices)))
      inside == {e \in entries : Len(vertices) - e.value \in 1..Len(vertices)}
      start == {[current |-> vertices[Len(vertices) - e.value], rng |-> e.rng] :
                  e \in inside}
  IN WalkFrom(vertices, start)
       \cup (IF inside # entries THEN {Threw} ELSE {})

(* seededRandom(randomSeed) for the first walk *)
FirstRng(randomSeed) ==
  IF randomSeed # NoSeed THEN ExactRng(randomSeed * SEED_UNIT) ELSE Unseeded

(* randomSeed ? randomSeed * 1.618 : undefined, for the second walk; the
   product is a multiple of 1/2 and free of rounding for the multiples of
   GOLDEN_DEN up to ExactSeedMax *)
SecondRng(randomSeed) ==
  IF randomSeed = NoSeed \/ randomSeed = 0 THEN Unseeded
  ELSE IF /\ randomSeed % GOLDEN_DEN = 0
          /\ randomSeed <= ExactSeedMax /\ -randomSeed <= ExactSeedMax
  THEN ExactRng((randomSeed \div GOLDEN_DEN) * GOLDEN_NUM)
  ELSE RoundedRng(randomSeed < 0)

(* !v.isAnchored || v.isAnchored === 'false' *)
IsUnanchored(v) == v.isAnchored = "" \/ v.isAnchored = "false"

TipPair_FirstTipDepth(tip1, tip2) ==
  [tip1Hash |-> tip1.vertexHash, tip2Hash |-> tip2.vertexHash,
   depth |-> tip1.depth + 1]

TipPair_DepthNotRaised(tip1, tip2) ==
  [tip1Hash |-> tip1.vertexHash, tip2Hash |-> tip2.vertexHash,
   depth |-> Max(tip1.depth, tip2.depth)]

TipPair(tip1, tip2) ==
  [tip1Hash |-> tip1.vertexHash, tip2Hash |-> tip2.vertexHash,
   depth |-> Max(tip1.depth, tip2.depth) + 1]

(***************************************************************************)
(* DAGUtils.selectTips (random-walk variant): the set of TipSelections the *)
(* call may return, or Threw.                                              *)
(***************************************************************************)
selectTips(recentVertices, randomSeed) ==
  LET unanchored == SelectSeq(recentVertices, IsUnanchored)
      latest == recentVertices[Len(recentVertices)]
  IN IF Len(recentVertices) = 0
     THEN {[tip1Hash |-> GENESIS_HASH, tip2Hash |-> GENESIS_HASH, depth |-> 0]}
     ELSE IF Len(unanchored) = 0 THEN {TipPair(latest, latest)}
     ELSE IF Len(unanchored) = 1 THEN {TipPair(unanchored[1], unanchored[1])}
     ELSE LET walk1 == performRandomWalk(unanchored, FirstRng(randomSeed))
              walk2 == performRandomWalk(unanchored, SecondRng(randomSeed))
          IN {TipPair(t1, t2) : t1 \in walk1 \ {Threw}, t2 \in walk2 \ {Threw}}
               \cup (IF Threw \in walk1 \/ (walk1 # {Threw} /\ Threw \in walk2)
                     THEN {Threw} ELSE {})

(***************************************************************************)
(* P2PNetwork.stats: Map<string, PeerStats>.  Of a PeerStats the model     *)
(* keeps connected, messagesSent and messagesReceived.                     *)
(***************************************************************************)
selfPeerId == "self"              \* this.node.peerId.toString()
fromPeerId == "remote"            \* message.from.toString(), the peer of the model
NoStats == [peerId \in {} |-> [connected |-> FALSE]]      \* new Map()

(* the PeerStats that handleIncomingMessage and publishToTopic start from
   when the Map has none for the peer *)
NewPeerStats == [connected |-> TRUE, messagesSent |-> 0, messagesReceived |-> 0]

PeerStatsOf(st, peerId) ==
  IF peerId \in DOMAIN st THEN st[peerId] ELSE NewPeerStats

SetStats(st, peerId, peerStats) ==
  [p \in DOMAIN st \cup {peerId} |-> IF p = peerId THEN peerStats ELSE st[p]]

(* getPeerCount(): the entries with connected *)
getPeerCount(st) == Cardinality({p \in DOMAIN st : st[p].connected})

(* stats.messagesReceived++ of handleIncomingMessage *)
MessageReceived(st, peerId) ==
  SetStats(st, peerId,
           [PeerStatsOf(st, peerId) EXCEPT !.messagesReceived = @ + 1])

(* selfStats.messagesSent++ of publishToTopic *)
MessageSent(st) ==
  SetStats(st, selfPeerId,
           [PeerStatsOf(st, selfPeerId) EXCEPT !.messagesSent = @ + 1])

(***************************************************************************)
(* Idle values of the parts of the state a specification does not use.     *)
(***************************************************************************)
NoResult == [op |-> "none"]
DagIdle   == pc = "idle" /\ input = <<>> /\ seed = NoSeed /\ result = NoResult
StoreIdle ==
  store = {} /\ procs = <<>> /\ created = 0 /\ overlap = FALSE
NonceIdle == seenNonces = {} /\ nonceLog = <<>>
NetIdle   == stats = NoStats /\ dispatched = <<>>

(***************************************************************************)
(* Hand-built vertex sets: the i-th vertex has vertexHash H(i) and, unless *)
(* its body b[i] names one, a payloadHash P(i) of its own.                 *)
(***************************************************************************)
HandBuilt(n, b) ==
  [i \in 1..n |-> b[i] @@ [vertexHash |-> H(i), payloadHash |-> P(i)]]

PlainBody(Tips, Depths) ==
  [tipReference1 : Tips, tipReference2 : Tips, depth : Depths,
   cumulativeWeight : {1}, isAnchored : {"false"},
   anchorTimestamp : {NoDate}, createdAt : {1}]

(* Graph shapes: up to three vertices, any parent references among them *)
ShapeBody == PlainBody({GENESIS_HASH, H(1), H(2), H(3)}, 0..MaxDepth)

(* The driver applies one DAGUtils function to the input *)
Validate ==
  /\ pc = "ready"
  /\ pc' = "done"
  /\ result' = [op |-> "isValidDAG", valid |-> isValidDAG(input),
                cycles |-> hasCycles(input)]
  /\ UNCHANGED <<input, seed, now, storeVars, nonceVars, netVars>>

Recalculate ==
  /\ pc = "ready"
  /\ pc' = "done"
  /\ result' = [op |-> "recalculateAllWeights",
                weights |-> recalculateAllWeights(input)]
  /\ UNCHANGED <<input, seed, now, storeVars, nonceVars, netVars>>

InitShape ==
  /\ \E n \in 1..3 : \E b \in [1..n -> ShapeBody] : input = HandBuilt(n, b)
  /\ pc = "ready" /\ seed = NoSeed /\ result = NoResult
  /\ now = 0 /\ StoreIdle /\ NonceIdle /\ NetIdle

NextShape == Validate \/ Recalculate

SpecShape == InitShape /\ [][NextShape]_vars

(***************************************************************************)
(* Reference definitions the claims are stated with.                       *)
(***************************************************************************)
RECURSIVE SumOver(_, _)
SumOver(S, f) ==
  IF S = {} THEN 0
  ELSE LET x == CHOOSE y \in S : TRUE IN f[x] + SumOver(S \ {x}, f)

(* the vertexHashes of the vertices that name h as a parent, each once *)
ApproverHashes(vertices, h) ==
  {vertices[i].vertexHash : i \in {j \in 1..Len(vertices) :
       vertices[j].tipReference1 = h \/ vertices[j].tipReference2 = h}}

ParentsOf(vertices, h) ==
  IF h \in Hashes(vertices)
  THEN {VertexMap(vertices)[h].tipReference1,
        VertexMap(vertices)[h].tipReference2} \ {GENESIS_HASH}
  ELSE {}

RECURSIVE Ancestors(_, _, _)
Ancestors(vertices, frontier, acc) ==
  LET new == UNION {ParentsOf(vertices, h) : h \in frontier} \ acc
  IN IF new = {} THEN acc ELSE Ancestors(vertices, new, acc \cup new)

(* what h reaches by following one or more parent references *)
AncestorsOf(vertices, h) == Ancestors(vertices, {h}, {})

HasParentCycle(vertices) ==
  \E i \in 1..Len(vertices) :
     vertices[i].vertexHash \in AncestorsOf(vertices, vertices[i].vertexHash)

(* C2: for every vertex set isValidDAG accepts, recalculateAllWeights maps each
   vertex to 1 plus the sum of the mapped weights of the distinct vertices that
   name it as a parent (1 when there is none). *)
C2_WeightIsOnePlusDistinctApprovers ==
  (pc = "done" /\ result.op = "recalculateAllWeights" /\ isValidDAG(input)) =>
     \A i \in 1..Len(input) :
        result.weights[input[i].vertexHash] =
          1 + SumOver(ApproverHashes(input, input[i].vertexHash), result.weights)

(* C8: isValidDAG returns false (and hasCycles true) for every vertex set in
   which some vertex reaches itself along parent references, whatever the
   depths and the order of the vertices. *)
C8_CycleRejected ==
  (pc = "done" /\ result.op = "isValidDAG" /\ HasParentCycle(input)) =>
     (result.cycles /\ ~result.valid)

(* a rejected three-vertex cycle that closes through second parents only *)
C8_Witness ==
  /\ pc = "done" /\ result.op = "isValidDAG" /\ ~result.valid
  /\ Len(input) = 3
  /\ input[1].tipReference1 = GENESIS_HASH /\ input[1].tipReference2 = H(2)
  /\ input[2].tipReference1 = GENESIS_HASH /\ input[2].tipReference2 = H(3)
  /\ input[3].tipReference1 = GENESIS_HASH /\ input[3].tipReference2 = H(1)
  /\ input[1].depth = 2 /\ input[2].depth = 1 /\ input[3].depth = 0

(***************************************************************************)
(* Inputs for the conflict check: two vertices with any references (H(3)   *)
(* is a hash of no vertex) or three shallow ones, payloads shared or not.  *)
(***************************************************************************)
ConflictBody2 ==
  [tipReference1 : {GENESIS_HASH, H(1), H(2), H(3)},
   tipReference2 : {GENESIS_HASH, H(1), H(2), H(3)},
   depth : 0..MaxDepth, payloadHash : {P(1), P(2)},
   cumulativeWeight : {1}, isAnchored : {"false"},
   anchorTimestamp : {NoDate}, createdAt : {1}]

ConflictBody3 ==
  [tipReference1 : {GENESIS_HASH, H(1)}, tipReference2 : {GENESIS_HASH, H(1)},
   depth : {0, 1}, payloadHash : {P(1), P(2)},
   cumulativeWeight : {1}, isAnchored : {"false"},
   anchorTimestamp : {NoDate}, createdAt : {1}]

InitConflict ==
  /\ \/ \E b \in [1..2 -> ConflictBody2] : input = HandBuilt(2, b)
     \/ \E b \in [1..3 -> ConflictBody3] : input = HandBuilt(3, b)
  /\ pc = "ready" /\ seed = NoSeed /\ result = NoResult
  /\ now = 0 /\ StoreIdle /\ NonceIdle /\ NetIdle

SpecConflict == InitConflict /\ [][Validate]_vars

(***************************************************************************)
(* Inputs for the anchoring check: two vertices, anchored or not (or with  *)
(* an empty isAnchored), anchored before, after or never, created at 2 or  *)
(* without createdAt.                                                      *)
(***************************************************************************)
AnchorBody ==
  [tipReference1 : {GENESIS_HASH, H(1), H(2)},
   tipReference2 : {GENESIS_HASH, H(1), H(2)},
   depth : {0, 1}, cumulativeWeight : {1},
   isAnchored : {"true", "false", ""},
   anchorTimestamp : {NoDate, 1, 3}, createdAt : {NoDate, 2}]

InitAnchor ==
  /\ \E b \in [1..2 -> AnchorBody] : input = HandBuilt(2, b)
  /\ pc = "ready" /\ seed = NoSeed /\ result = NoResult
  /\ now = 0 /\ StoreIdle /\ NonceIdle /\ NetIdle

SpecAnchor == InitAnchor /\ [][Validate]_vars

HasPayloadConflict(vertices) ==
  \E i, j \in 1..Len(vertices) :
     /\ vertices[i].payloadHash = vertices[j].payloadHash
     /\ <<vertices[i].tipReference1, vertices[i].tipReference2>>
          # <<vertices[j].tipReference1, vertices[j].tipReference2>>

PassesStructure(vertices) ==
  /\ ~hasCycles(vertices) /\ ReferencesExist(vertices) /\ DepthOrdering(vertices)

(* C9: isValidDAG returns false for every vertex set holding two vertices with
   the same payloadHash and different (tipReference1, tipReference2) pairs. *)
C9_ConflictRejected ==
  (pc = "done" /\ result.op = "isValidDAG" /\ HasPayloadConflict(input)) =>
     ~result.valid

(* a set rejected for the conflict alone: the pairs differ in the second tip *)
C9_Witness ==
  /\ pc = "done" /\ result.op = "isValidDAG" /\ ~result.valid
  /\ HasPayloadConflict(input) /\ PassesStructure(input)
  /\ \A i, j \in 1..Len(input) : input[i].tipReference1 = input[j].tipReference1

AnchoredOverUnanchoredParent(vertices) ==
  \E i \in 1..Len(vertices) :
     /\ vertices[i].isAnchored = "true"
     /\ \E t \in {vertices[i].tipReference1, vertices[i].tipReference2} :
           /\ t # GENESIS_HASH
           /\ t \in Hashes(vertices)
           /\ VertexMap(vertices)[t].isAnchored # "true"

AnchoredBeforeCreated(vertices) ==
  \E i \in 1..Len(vertices) :
     /\ vertices[i].isAnchored = "true"
     /\ vertices[i].anchorTimestamp # NoDate /\ vertices[i].createdAt # NoDate
     /\ vertices[i].anchorTimestamp < vertices[i].createdAt

(* C10: isValidDAG returns false for every vertex set with an anchored vertex
   over a non-genesis parent that is in the set and not anchored, and for every
   set with an anchored vertex anchored earlier than it was created. *)
C10_AnchoringRejected ==
  (pc = "done" /\ result.op = "isValidDAG"
     /\ (AnchoredOverUnanchoredParent(input) \/ AnchoredBeforeCreated(input))) =>
     ~result.valid

(* a set rejected for the unanchored parent alone *)
C10_Witness ==
  /\ pc = "done" /\ result.op = "isValidDAG" /\ ~result.valid
  /\ AnchoredOverUnanchoredParent(input) /\ ~AnchoredBeforeCreated(input)
  /\ PassesStructure(input) /\ ~HasPayloadConflict(input)

(***************************************************************************)
(* selectTips called twice on the same vertices with the same seed.        *)
(***************************************************************************)
MaxCalls == 2
Seeds == {NoSeed, 0, 250, 500, -250}

TipsBody1 ==
  [tipReference1 : {GENESIS_HASH, H(1), H(2)},
   tipReference2 : {GENESIS_HASH, H(1), H(2)},
   depth : 0..MaxDepth, cumulativeWeight : {1},
   isAnchored : {"true", "false"}, anchorTimestamp : {NoDate}, createdAt : {1}]

(* two vertices with any parents, cycles included *)
TipsBody2 ==
  [tipReference1 : {GENESIS_HASH, H(1), H(2)},
   tipReference2 : {GENESIS_HASH, H(1), H(2)},
   depth : {1}, cumulativeWeight : {1},
   isAnchored : {"true", "false"}, anchorTimestamp : {NoDate}, createdAt : {1}]

TipsBody3 ==
  [tipReference1 : {GENESIS_HASH, H(2), H(3)},
   tipReference2 : {GENESIS_HASH, H(2), H(3)},
   depth : 0..MaxDepth, cumulativeWeight : {1, 1000},
   isAnchored : {"false"}, anchorTimestamp : {NoDate}, createdAt : {1}]

(* newest first, as the store returns them: parents come later in the array *)
NewestFirst(b) ==
  \A i \in DOMAIN b :
     {b[i].tipReference1, b[i].tipReference2}
        \subseteq {GENESIS_HASH} \cup {H(j) : j \in (i + 1)..Len(b)}

SelectTipsCall ==
  /\ pc = "ready"
  /\ \E r \in selectTips(input, seed) :
        result' = [op |-> "selectTips",
                   calls |-> (IF result.op = "selectTips" THEN result.calls
                              ELSE <<>>) \o <<r>>]
  /\ pc' = IF Len(result'.calls) >= MaxCalls THEN "done" ELSE "ready"
  /\ UNCHANGED <<input, seed, now, storeVars, nonceVars, netVars>>

InitTips ==
  /\ \/ input = <<>>
     \/ \E b \in [1..1 -> TipsBody1] : input = HandBuilt(1, b)
     \/ \E b \in [1..2 -> TipsBody2] : input = HandBuilt(2, b)
     \/ \E b \in [1..3 -> TipsBody3] : NewestFirst(b) /\ input = HandBuilt(3, b)
  /\ seed \in Seeds
  /\ pc = "ready" /\ result = NoResult
  /\ now = 0 /\ StoreIdle /\ NonceIdle /\ NetIdle

SpecTips == InitTips /\ [][SelectTipsCall]_vars

(* C3: with a numeric seed, two calls of selectTips on the same vertices return
   the same tip1Hash, tip2Hash and depth. *)
C3_SeededSelectTipsDeterministic ==
  (pc = "done" /\ seed # NoSeed) =>
     \A i, j \in 1..Len(result.calls) : result.calls[i] = result.calls[j]

(***************************************************************************)
(* Local vertex creation: VertexBuilder and P2PNetwork.relayMessage.       *)
(***************************************************************************)
LocalNode == "local"

(***************************************************************************)
(* JSON values.  A VertexPayload is a record: its type and timestamp are   *)
(* the string and the number of the interface, every other property (data  *)
(* and whatever else the object carries) is one of the values below.       *)
(***************************************************************************)
JStr(s) == [str |-> s]
JNum(n) == [num |-> n]
JBool(b) == [bool |-> b]
JNull == [null |-> TRUE]
JUndefined == [undefined |-> TRUE]
JObj(properties) == [obj |-> properties]
JArr(items) == [arr |-> items]

PlainKeys == {"type", "timestamp"}

(* JSON.stringify of a nested value, the text standing as the value it
   parses to: a property whose value is undefined is left out, an undefined
   array item becomes null and, with a property list (filtered), an object
   at any depth keeps the listed properties only, in the order of the list *)
RECURSIVE SerializeValue(_, _, _)
SerializeValue(value, filtered, propertyList) ==
  IF "obj" \in DOMAIN value
  THEN JObj([k \in {k \in DOMAIN value.obj :
                      /\ filtered => k \in propertyList
                      /\ value.obj[k] # JUndefined} |->
               SerializeValue(value.obj[k], filtered, propertyList)])
  ELSE IF "arr" \in DOMAIN value
  THEN JArr([i \in DOMAIN value.arr |->
               IF value.arr[i] = JUndefined THEN JNull
               ELSE SerializeValue(value.arr[i], filtered, propertyList)])
  ELSE value

Serialize(payload, filtered, propertyList) ==
  [k \in {k \in DOMAIN payload :
            /\ filtered => k \in propertyList
            /\ k \in PlainKeys \/ payload[k] # JUndefined} |->
     IF k \in PlainKeys THEN payload[k]
     ELSE SerializeValue(payload[k], filtered, propertyList)]

(* JSON.stringify(this.payload) *)
Stringify(payload) == Serialize(payload, FALSE, {})

(* JSON.stringify(payload, Object.keys(payload).sort()): the array holds the
   payload's own property names and is applied at every depth *)
Canonical(payload) == Serialize(payload, TRUE, DOMAIN payload)

calculatePayloadHash(payload) == <<"sha256", Canonical(payload)>>

calculateVertexHash(vertex) ==
  <<vertex.tipReference1, vertex.tipReference2, vertex.payloadHash,
    vertex.nodeId, vertex.timestamp>>

(* VertexBuilder.build followed by the DagVertex of createEngagementVertex *)
createEngagementVertex(payload, tips, t) ==
  LET payloadHash == calculatePayloadHash(payload)
  IN [vertexHash |-> calculateVertexHash(
                        [tipReference1 |-> tips.tip1Hash,
                         tipReference2 |-> tips.tip2Hash,
                         payloadHash |-> payloadHash,
                         nodeId |-> LocalNode,
                         timestamp |-> payload.timestamp]),
      tipReference1 |-> tips.tip1Hash,
      tipReference2 |-> tips.tip2Hash,
      depth |-> tips.depth,
      payloadHash |-> payloadHash,
      payloadData |-> Stringify(payload),
      cumulativeWeight |-> 1,
      isAnchored |-> "false",
      anchorTimestamp |-> NoDate,
      createdAt |-> t]

(***************************************************************************)
(* DAGStorage: the object store 'vertices', keyed by vertexHash.           *)
(***************************************************************************)
RecentLimit == 50

HashesOf(S) == {v.vertexHash : v \in S}

(* store.put of each vertex of puts *)
Put(S, puts) == {v \in S : v.vertexHash \notin HashesOf(puts)} \cup puts

(* the orders in which the vertices of S can come out of the store *)
Orders(S) ==
  {s \in [1..Cardinality(S) -> S] : \A i, j \in DOMAIN s : i # j => s[i] # s[j]}

(* a.createdAt ? new Date(a.createdAt).getTime() : 0 *)
TimeOf(v) == IF v.createdAt = NoDate THEN 0 ELSE v.createdAt

(* the records of the index 'byCreatedAt': a record whose createdAt is null
   has no valid key and is not in the index *)
ByCreatedAt(S) == {v \in S : v.createdAt # NoDate}

(* the order of two primary keys in the index, where the model has it: the
   hand-built hashes H(i) stand in the order of i.  The order of two
   computed hashes is the order of their SHA-256 digests, which the model
   leaves open. *)
KeyOrderKnown(a, b) == Len(a) = 1 /\ Len(b) = 1
KeyBefore(a, b) == a[1] < b[1]

(* the records that can come first out of the index among those of S: the
   least createdAt, and of one createdAt the least primary key (vertexHash) *)
FirstInIndex(S) ==
  {v \in S :
     \A w \in S \ {v} :
        \/ v.createdAt < w.createdAt
        \/ /\ v.createdAt = w.createdAt
           /\ KeyOrderKnown(v.vertexHash, w.vertexHash)
                => KeyBefore(v.vertexHash, w.vertexHash)}

(* index('byCreatedAt').getAll() *)
RECURSIVE IndexGetAll(_)
IndexGetAll(S) ==
  IF S = {} THEN {<<>>}
  ELSE UNION {{<<v>> \o rest : rest \in IndexGetAll(S \ {v})} :
                v \in FirstInIndex(S)}

(* vertices.sort((a, b) => timeB - timeA): the sort is stable, so vertices
   of one time stay in the order they had in vertices *)
RECURSIVE SortByTimeDescending(_)
SortByTimeDescending(vertices) ==
  IF vertices = <<>> THEN <<>>
  ELSE LET times == {TimeOf(vertices[i]) : i \in DOMAIN vertices}
           latest == CHOOSE t \in times : \A u \in times : t >= u
           IsLatest(v) == TimeOf(v) = latest
           IsEarlier(v) == TimeOf(v) # latest
       IN SelectSeq(vertices, IsLatest)
            \o SortByTimeDescending(SelectSeq(vertices, IsEarlier))

(* getRecentVertices(limit) *)
getRecentVertices(S, limit) ==
  {LET sorted == SortByTimeDescending(vertices)
   IN SubSeq(sorted, 1, Min(limit, Len(sorted))) :
     vertices \in IndexGetAll(ByCreatedAt(S))}

(* DAGStorage.selectTips(): DAGUtils.selectTips(getRecentVertices(50)) *)
storeSelectTips(S) ==
  UNION {selectTips(recent, NoSeed) : recent \in getRecentVertices(S, RecentLimit)}

(* a Map<string, DagVertex[]>, and an array handed over in its place *)
ApproversMap(index) == [map |-> index]
ArrayArgument(vertices) == [array |-> vertices]

(* DAGUtils.calculateCumulativeWeight(vertex, approversIndex): the call
   approversIndex.get(...) is a TypeError on anything but a Map *)
calculateCumulativeWeight(vertex, approversIndex) ==
  IF "map" \notin DOMAIN approversIndex THEN Threw
  ELSE LET directApprovers ==
             IF vertex.vertexHash \in DOMAIN approversIndex.map
             THEN approversIndex.map[vertex.vertexHash] ELSE <<>>
       IN IF Len(directApprovers) = 0 THEN 1
          ELSE 1 + SumSeq([i \in 1..Len(directApprovers) |->
                             directApprovers[i].cumulativeWeight])

(* the loop of updateCumulativeWeights over allVertices, whose elements it
   updates in place: whether it threw, and the vertices it had put by then *)
RECURSIVE UpdateLoop(_, _, _)
UpdateLoop(allVertices, i, puts) ==
  IF i > Len(allVertices) THEN [threw |-> FALSE, puts |-> puts]
  ELSE LET vertex == allVertices[i]
           newWeight ==
             calculateCumulativeWeight(vertex, ArrayArgument(allVertices))
           updated == [vertex EXCEPT !.cumulativeWeight = newWeight]
       IN IF newWeight = Threw THEN [threw |-> TRUE, puts |-> puts]
          ELSE IF newWeight # vertex.cumulativeWeight
          THEN UpdateLoop([allVertices EXCEPT ![i] = updated], i + 1,
                          puts \cup {updated})
          ELSE UpdateLoop(allVertices, i + 1, puts)

(***************************************************************************)
(* The store machine.  An operation is cut at the await between its read   *)
(* of the store and what it does with the result, a creation also at the   *)
(* await of pubsub.publish.  A transaction is atomic and the transactions  *)
(* on 'vertices' take effect in the order of their creation.  Nothing      *)
(* keeps an operation from starting while others wait: procs holds, per    *)
(* kind, the bag of the operations in flight.                              *)
(***************************************************************************)
MaxInFlight == 2                        \* operations in flight at once
PruneAges == {1, 2}                     \* maxAgeMs arguments
MessageData == {JObj([text |-> JStr("m")])}     \* messageData arguments

NoneInFlight ==
  [create |-> EmptyBag, publish |-> EmptyBag, prune |-> EmptyBag,
   update |-> EmptyBag]

InFlight ==
  BagCardinality(procs.create) + BagCardinality(procs.publish)
    + BagCardinality(procs.prune) + BagCardinality(procs.update)

AllIdle == procs = NoneInFlight

InitStore ==
  /\ store = {} /\ now = 0
  /\ procs = NoneInFlight
  /\ created = 0 /\ overlap = FALSE
  /\ DagIdle /\ NonceIdle /\ NetIdle

(* an operation of the kind starts and waits for its read *)
Start(kind, op) ==
  /\ InFlight < MaxInFlight
  /\ procs' = [procs EXCEPT ![kind] = @ (+) SetToBag({op})]
  /\ overlap' = (overlap \/ InFlight > 0)

(* the operation op of the kind ends *)
Finish(kind, op) == procs' = [procs EXCEPT ![kind] = @ (-) SetToBag({op})]

(* createEngagementVertex(payload) up to the end of dagStorage.selectTips() *)
StartCreate(payload) ==
  /\ created < MaxCreated
  /\ created' = created + 1
  /\ \E tips \in storeSelectTips(store) :
        Start("create", [payload |-> payload, tips |-> tips])
  /\ UNCHANGED <<store, now, dagVars, nonceVars, netVars>>

(* relayMessage up to the end of dagStorage.selectTips() *)
CreateSelect ==
  \E data \in MessageData :
     StartCreate([type |-> "message", data |-> data, timestamp |-> now])

(* the topic on which the vertex of a payload is published *)
TopicOf(type) ==
  IF type = "message" THEN "nexus-messages"
  ELSE IF type = "verification" THEN "nexus-verifications"
  ELSE "nexus-heartbeat"

(* the rest of createEngagementVertex, then dagStorage.addVertex, and
   publishToTopic up to the await of pubsub.publish *)
CreateAdd ==
  /\ \E op \in BagToSet(procs.create) :
        /\ store' = Put(store, {createEngagementVertex(op.payload, op.tips, now)})
        /\ procs' = [procs EXCEPT
                       !.create = @ (-) SetToBag({op}),
                       !.publish = @ (+) SetToBag({[topic |-> TopicOf(op.payload.type)]})]
  /\ UNCHANGED <<now, created, overlap, dagVars, nonceVars, netVars>>

(* the rest of publishToTopic: the statistics of the node itself *)
CreatePublish ==
  /\ \E op \in BagToSet(procs.publish) :
        /\ stats' = MessageSent(stats)
        /\ Finish("publish", op)
  /\ UNCHANGED <<store, now, created, overlap, dagVars, nonceVars, dispatched>>

(* DAGStorage.pruneOldVertices up to the end of getAllVertices() *)
PruneRead ==
  /\ \E maxAgeMs \in PruneAges :
        Start("prune", [allVertices |-> store, maxAgeMs |-> maxAgeMs])
  /\ UNCHANGED <<store, now, created, dagVars, nonceVars, netVars>>

(* toDelete of DAGStorage.pruneOldVertices at time t for what getAllVertices returned *)
ToDelete(read, maxAgeMs, t) ==
  LET allVertices == CHOOSE o \in Orders(read) : TRUE
      pruned == pruneOldVertices(allVertices, maxAgeMs, t)
  IN {v \in Range(allVertices) :
        ~ \E q \in Range(pruned) : q.vertexHash = v.vertexHash}

(* DAGUtils.pruneOldVertices on what was read, then the deleting transaction *)
PruneWrite ==
  /\ \E op \in BagToSet(procs.prune) :
        /\ LET toDelete == ToDelete(op.allVertices, op.maxAgeMs, now)
           IN store' = {v \in store : v.vertexHash \notin HashesOf(toDelete)}
        /\ Finish("prune", op)
  /\ UNCHANGED <<now, created, overlap, dagVars, nonceVars, netVars>>

(* DAGStorage.updateCumulativeWeights up to the end of getAllVertices() *)
UpdateRead ==
  /\ Start("update", [allVertices |-> store])
  /\ UNCHANGED <<store, now, created, dagVars, nonceVars, netVars>>

(* the readwrite transaction of updateCumulativeWeights; with the array in
   the place of the approvers index the loop throws in its first round and
   the transaction commits what was put before *)
UpdateWrite ==
  /\ \E op \in BagToSet(procs.update) :
        \E allVertices \in Orders(op.allVertices) :
           /\ store' = Put(store, UpdateLoop(allVertices, 1, {}).puts)
           /\ Finish("update", op)
  /\ UNCHANGED <<now, created, overlap, dagVars, nonceVars, netVars>>

(* DAGStorage.clear(): one transaction clears the object store *)
Clear ==
  /\ store' = {}
  /\ UNCHANGED <<now, procs, created, overlap, dagVars, nonceVars, netVars>>

(* the clock advances *)
Tick ==
  /\ now < MaxClock
  /\ now' = now + 1
  /\ UNCHANGED <<storeVars, dagVars, nonceVars, netVars>>

Init == InitStore

Next ==
  \/ CreateSelect \/ CreateAdd \/ CreatePublish
  \/ PruneRead \/ PruneWrite
  \/ UpdateRead \/ UpdateWrite
  \/ Clear
  \/ Tick

Spec == Init /\ [][Next]_vars

(* local creations and prunings *)
NextLocal ==
  \/ CreateSelect
  \/ CreateAdd
  \/ CreatePublish
  \/ PruneRead
  \/ PruneWrite
  \/ Tick

SpecLocal == Init /\ [][NextLocal]_vars

(* C1: after any sequence of local creations and prunings, each ended
   before the next began, both parents of every stored vertex are the
   genesis sentinel or the vertexHash of a stored vertex. *)
C1_ParentsResolve ==
  (AllIdle /\ ~ overlap) =>
    \A v \in store :
       {v.tipReference1, v.tipReference2} \subseteq {GENESIS_HASH} \cup HashesOf(store)

(* the pruning op ends in this step *)
PruneEnds(op) ==
  /\ op \in BagToSet(procs.prune)
  /\ procs' = [procs EXCEPT !.prune = @ (-) SetToBag({op})]

(* still kept by DAGUtils.pruneOldVertices at time t *)
KeptAt(v, maxAgeMs, t) == pruneOldVertices(<<v>>, maxAgeMs, t) = <<v>>

(* C4: the store after concurrent addVertex, updateCumulativeWeights and
   pruneOldVertices is the store of one of their serial orders.  In every
   serial order a vertex that addVertex put and that the pruning's cutoff
   keeps is in the store when the pruning has ended, whether the pruning
   ran before the put or after it: so the deleting transaction of a pruning
   removes no record that was put after the pruning's read and that its own
   cutoff keeps. *)
C4_PruneKeepsLaterPuts ==
  [][\A op \in BagToSet(procs.prune) :
        PruneEnds(op) =>
          \A v \in store \ op.allVertices :
             KeptAt(v, op.maxAgeMs, now) => v \in store']_vars

(***************************************************************************)
(* NonceTracker (shared/crypto.ts).  seenNonces holds one [nonce,          *)
(* timestamp] per recorded nonce.                                          *)
(***************************************************************************)
maxAgeMs == 300000
cleanupIntervalMs == 60000
FutureSkewMs == 60000

Recorded(seen, nonce) == \E e \in seen : e.nonce = nonce

(* neither too old nor in the future: the condition under which hasSeenNonce records *)
InWindow(timestamp, t) ==
  ~ (timestamp < t - maxAgeMs \/ timestamp > t + FutureSkewMs)

hasSeenNonce_ChecksOnly(seen, nonce, timestamp, t) ==
  IF Recorded(seen, nonce) THEN [returned |-> TRUE, seen |-> seen]
  ELSE [returned |-> ~ InWindow(timestamp, t), seen |-> seen]

hasSeenNonce_RecordsFirst(seen, nonce, timestamp, t) ==
  IF Recorded(seen, nonce) THEN [returned |-> TRUE, seen |-> seen]
  ELSE [returned |-> ~ InWindow(timestamp, t),
        seen |-> seen \cup {[nonce |-> nonce, timestamp |-> timestamp]}]

(* hasSeenNonce(nonce, timestamp) at time t: what it returns and the map it leaves *)
hasSeenNonce(seen, nonce, timestamp, t) ==
  IF Recorded(seen, nonce) THEN [returned |-> TRUE, seen |-> seen]
  ELSE IF ~ InWindow(timestamp, t) THEN [returned |-> TRUE, seen |-> seen]
  ELSE [returned |-> FALSE,
        seen |-> seen \cup {[nonce |-> nonce, timestamp |-> timestamp]}]

Sweep_CutoffNow(seen, t) == {e \in seen : ~ (e.timestamp < t)}

(* one run of the cleanup timer at time t *)
Sweep(seen, t) == {e \in seen : ~ (e.timestamp < t - maxAgeMs)}

MaxSweeps == 2          \* the clock runs 0..MaxSweeps cleanup intervals
MaxNonceCalls == 3      \* hasSeenNonce calls per behaviour
Nonces == {"n1", "n2"}
Timestamps == {-300000, -240000, 0, 120000, 180000}

HasSeenNonceCall ==
  /\ Len(nonceLog) < MaxNonceCalls
  /\ \E nonce \in Nonces, timestamp \in Timestamps :
        LET r == hasSeenNonce(seenNonces, nonce, timestamp, now)
        IN /\ seenNonces' = r.seen
           /\ nonceLog' = Append(nonceLog,
                 [nonce |-> nonce, timestamp |-> timestamp, at |-> now,
                  recorded |-> Recorded(seenNonces, nonce),
                  returned |-> r.returned])
  /\ UNCHANGED <<now, dagVars, storeVars, netVars>>

Cleanup ==
  /\ seenNonces' = Sweep(seenNonces, now)
  /\ UNCHANGED <<now, nonceLog, dagVars, storeVars, netVars>>

NonceTick ==
  /\ now < MaxSweeps * cleanupIntervalMs
  /\ now' = now + cleanupIntervalMs
  /\ UNCHANGED <<nonceVars, dagVars, storeVars, netVars>>

InitNonce ==
  /\ seenNonces = {} /\ nonceLog = <<>> /\ now = 0
  /\ DagIdle /\ StoreIdle /\ NetIdle

NextNonce == HasSeenNonceCall \/ Cleanup \/ NonceTick

SpecNonce == InitNonce /\ [][NextNonce]_vars

(* C7: a call hasSeenNonce(n, t) made while n is not recorded and t is in
   the acceptance window returns false, and every later call with the same
   (n, t) returns true, whatever calls, sweeps and clock advances come in
   between. *)
C7_AcceptedOnceThenRejected ==
  \A i \in DOMAIN nonceLog :
     (~ nonceLog[i].recorded /\ InWindow(nonceLog[i].timestamp, nonceLog[i].at))
       => /\ ~ nonceLog[i].returned
          /\ \A j \in DOMAIN nonceLog :
                (j > i /\ nonceLog[j].nonce = nonceLog[i].nonce
                       /\ nonceLog[j].timestamp = nonceLog[i].timestamp)
                  => nonceLog[j].returned

(* the pair was accepted, its entry was swept, and it was submitted again *)
C7_Witness ==
  \E i, j \in DOMAIN nonceLog :
     /\ i < j
     /\ ~ nonceLog[i].returned
     /\ nonceLog[j].nonce = nonceLog[i].nonce
     /\ nonceLog[j].timestamp = nonceLog[i].timestamp
     /\ ~ nonceLog[j].recorded
     /\ nonceLog[j].returned

(***************************************************************************)
(* Signatures (shared/crypto.ts): SignedData is [data, signature,          *)
(* publicKey, timestamp, nonce]; an Ed25519 signature is modelled as the   *)
(* key that made it and the bytes it was made over.                        *)
(***************************************************************************)
Absent == [absent |-> TRUE]       \* a property the JSON object does not have

signData_OmitsNonce(data, key, t, nonce) ==
  [data |-> data,
   signature |-> [by |-> key, over |-> <<data, t>>],
   publicKey |-> key, timestamp |-> t, nonce |-> nonce]

signData(data, key, t, nonce) ==
  [data |-> data,
   signature |-> [by |-> key, over |-> <<data, t, nonce>>],
   publicKey |-> key, timestamp |-> t, nonce |-> nonce]

verifySignature(signedData) ==
  /\ signedData.signature.by = signedData.publicKey
  /\ signedData.signature.over =
       <<signedData.data, signedData.timestamp, signedData.nonce>>

ProofMaxSkewMs == 300000          \* 5 * 60 * 1000

(* the values that if (x) and x || y take for false *)
Falsy(value) ==
  value \in {JUndefined, JNull, JBool(FALSE), JNum(0), JStr("")}

(* Object.keys(proof) *)
ProofKeys == {"nodeId", "eventType", "timestamp", "nonce", "workFactor"}

(* DAGUtils.generateEngagementProof(data, ...) signed at time t; nonce is
   the nonce that signData draws.  JSON.stringify(proof, Object.keys(proof)
   .sort()) applies the property list inside workFactor as well *)
generateEngagementProof(data, key, t, nonce) ==
  signData([nodeId |-> data.nodeId, eventType |-> data.eventType,
            timestamp |-> data.timestamp, nonce |-> data.nonce,
            workFactor |-> IF Falsy(data.workFactor) THEN JNum(1)
                           ELSE SerializeValue(data.workFactor, TRUE, ProofKeys)],
           key, t, nonce)

(* DAGUtils.verifyEngagementProof, its Date.now() returning t *)
verifyEngagementProof(signedProof, t) ==
  IF ~ verifySignature(signedProof) THEN FALSE
  ELSE LET proof == signedProof.data
           timeDiff == IF t >= signedProof.timestamp
                       THEN t - signedProof.timestamp
                       ELSE signedProof.timestamp - t
       IN IF proof.nodeId = "" \/ proof.eventType = "" \/ proof.timestamp = 0
             \/ proof.nonce = ""
          THEN FALSE
          ELSE IF ~ Falsy(proof.workFactor) /\ "num" \notin DOMAIN proof.workFactor
          THEN FALSE
          ELSE IF timeDiff > ProofMaxSkewMs THEN FALSE
          ELSE TRUE

(* DAGUtils.verifyVertexSignature(signature, expectedHash) *)
verifyVertexSignature(signedData, expectedHash) ==
  IF ~ verifySignature(signedData) THEN FALSE
  ELSE IF signedData.data # expectedHash THEN FALSE
  ELSE TRUE

(***************************************************************************)
(* P2PNetwork.handleIncomingMessage(message).  A call runs without         *)
(* interruption from one await to the next: lines 203-216, the inside of   *)
(* verifyEngagementProof, 217-252, 253-268 and 269-303.  Between two of    *)
(* them the clock moves, the cleanup timer runs and other calls go on.     *)
(* procs holds the calls, numbered in the order in which they began.       *)
(***************************************************************************)
Handlers == {"h1", "h2"}
Free == [pc |-> "free"]                 \* a call that has not begun
Ended == {"done", "dropped"}
Garbage == [garbage |-> TRUE]           \* message.data that JSON.parse rejects

(* a call as it begins: isValid and verifiedAt are the result and the clock
   of verifyEngagementProof, recorded whether its hasSeenNonce recorded the
   nonce, thrown whether its promise was rejected *)
NewCall(data, handlerThrows) ==
  [pc |-> "start", data |-> data, handlerThrows |-> handlerThrows,
   isValid |-> FALSE, verifiedAt |-> NoDate, recorded |-> FALSE,
   thrown |-> FALSE]

CatchAll_Rethrows(call) == call

(* lines 304-306: catch (error) { console.error(...) } *)
CatchAll(call) == [call EXCEPT !.thrown = FALSE]

(* lines 236-279: the checks made when the vertex has a signature *)
SignatureChecksPass(vertex) ==
  IF vertex.payloadData = Absent THEN FALSE
  ELSE LET payload == vertex.payloadData
           computedVertexHash ==
             calculateVertexHash([tipReference1 |-> vertex.tipReference1,
                                  tipReference2 |-> vertex.tipReference2,
                                  payloadHash |-> vertex.payloadHash,
                                  nodeId |-> vertex.nodeId,
                                  timestamp |-> payload.timestamp])
       IN IF calculatePayloadHash(payload) # vertex.payloadHash THEN FALSE
          ELSE IF ~ verifyVertexSignature(vertex.signature, computedVertexHash)
          THEN FALSE
          ELSE IF vertex.vertexHash # computedVertexHash THEN FALSE
          ELSE TRUE

(* lines 236-252, up to the await of calculatePayloadHash *)
SignatureEntry(vertex) ==
  IF vertex.signature = Absent THEN "dispatch"
  ELSE IF vertex.payloadData = Absent THEN "dropped"
  ELSE "payloadHash"

(* lines 282-302: the statistics, lastSeen and the topic handlers; what a
   handler throws is caught at line 299 *)
Dispatch(h, call) ==
  /\ procs' = [procs EXCEPT ![h] = [call EXCEPT !.pc = "done"]]
  /\ stats' = MessageReceived(stats, fromPeerId)
  /\ dispatched' = Append(dispatched, [data |-> call.data, at |-> now, by |-> h])

(* a return inside the try block *)
Drop(h, call) ==
  /\ procs' = [procs EXCEPT ![h] = [call EXCEPT !.pc = "dropped"]]
  /\ UNCHANGED <<stats, dispatched>>

(* an exception inside the try block *)
Throw(h, call) == Drop(h, CatchAll([call EXCEPT !.thrown = TRUE]))

(* the call waits at the await named by to *)
Await(h, call, to) ==
  /\ procs' = [procs EXCEPT ![h] = [call EXCEPT !.pc = to]]
  /\ UNCHANGED <<stats, dispatched>>

Continue(h, call, to) ==
  IF to = "dispatch" THEN Dispatch(h, call)
  ELSE IF to = "dropped" THEN Drop(h, call)
  ELSE Await(h, call, to)

(* gossipsub hands a message to handleIncomingMessage: lines 203-216, and
   on to the first await *)
Deliver(h, raw, handlerThrows) ==
  /\ procs[h] = Free
  /\ h = "h2" => procs["h1"] # Free
  /\ LET call == NewCall(raw, handlerThrows)
     IN IF raw = Garbage THEN Throw(h, call)        \* JSON.parse: SyntaxError
        ELSE IF raw.type = "relay" \/ raw.type = "verification"
        THEN IF raw.vertex = Absent
             THEN Throw(h, call)                    \* vertex.engagementProof: TypeError
             ELSE IF raw.vertex.engagementProof # Absent
             THEN Await(h, call, "verifyProof")
             ELSE Continue(h, call, SignatureEntry(raw.vertex))
        ELSE Dispatch(h, call)
  /\ UNCHANGED <<seenNonces, nonceLog, now, store, created, overlap, dagVars>>

(* DAGUtils.verifyEngagementProof after its await of verifySignature *)
HandleVerifyProof(h) ==
  /\ procs[h].pc = "verifyProof"
  /\ Await(h, [procs[h] EXCEPT
                 !.isValid = verifyEngagementProof(
                               procs[h].data.vertex.engagementProof, now),
                 !.verifiedAt = now],
           "replay")
  /\ UNCHANGED <<seenNonces, nonceLog, now, store, created, overlap, dagVars>>

(* lines 217-252: the replay check and the start of the signature checks *)
HandleReplay(h) ==
  /\ procs[h].pc = "replay"
  /\ LET vertex == procs[h].data.vertex
         proofData == vertex.engagementProof
         r == hasSeenNonce(seenNonces, proofData.nonce, proofData.timestamp, now)
     IN IF ~ procs[h].isValid
        THEN Drop(h, procs[h]) /\ UNCHANGED seenNonces
        ELSE /\ seenNonces' = r.seen
             /\ IF r.returned THEN Drop(h, procs[h])
                ELSE Continue(h, [procs[h] EXCEPT !.recorded = TRUE],
                              SignatureEntry(vertex))
  /\ UNCHANGED <<nonceLog, now, store, created, overlap, dagVars>>

(* lines 253-268 *)
HandlePayloadHash(h) ==
  /\ procs[h].pc = "payloadHash"
  /\ LET vertex == procs[h].data.vertex
     IN IF calculatePayloadHash(vertex.payloadData) # vertex.payloadHash
        THEN Drop(h, procs[h])
        ELSE Await(h, procs[h], "signature")
  /\ UNCHANGED <<seenNonces, nonceLog, now, store, created, overlap, dagVars>>

(* lines 269-303 *)
HandleSignature(h) ==
  /\ procs[h].pc = "signature"
  /\ LET vertex == procs[h].data.vertex
         computedVertexHash ==
           calculateVertexHash([tipReference1 |-> vertex.tipReference1,
                                tipReference2 |-> vertex.tipReference2,
                                payloadHash |-> vertex.payloadHash,
                                nodeId |-> vertex.nodeId,
                                timestamp |-> vertex.payloadData.timestamp])
     IN IF ~ verifyVertexSignature(vertex.signature, computedVertexHash)
        THEN Drop(h, procs[h])
        ELSE IF vertex.vertexHash # computedVertexHash
        THEN Drop(h, procs[h])
        ELSE Dispatch(h, procs[h])
  /\ UNCHANGED <<seenNonces, nonceLog, now, store, created, overlap, dagVars>>

(* a call goes on after one of its awaits *)
HandleStep(h) ==
  \/ HandleVerifyProof(h)
  \/ HandleReplay(h)
  \/ HandlePayloadHash(h)
  \/ HandleSignature(h)

(* the cleanup timer of the NonceTracker *)
HandlerCleanup ==
  /\ seenNonces' = Sweep(seenNonces, now)
  /\ UNCHANGED <<now, nonceLog, netVars, storeVars, dagVars>>

(***************************************************************************)
(* Messages a peer can publish.  A remote vertex is built as the peer's    *)
(* own VertexBuilder builds it; the variants drop or damage fields of it.  *)
(* payloadData (JSON.stringify of the payload) is kept as the payload it   *)
(* parses back to.                                                         *)
(***************************************************************************)
RemoteNode == "peer"
RemoteKey == "peerKey"
NetTime == 1                      \* Date.now() while the peer builds
NetStepMs == 150000               \* one advance of the receiver's clock
MaxNetTicks == 3                  \* advances per behaviour

LocalVertex ==
  createEngagementVertex([type |-> "message",
                          data |-> JObj([text |-> JStr("m")]),
                          timestamp |-> 0],
                         [tip1Hash |-> GENESIS_HASH, tip2Hash |-> GENESIS_HASH,
                          depth |-> 0], 0)

RemotePayload ==
  [type |-> "message", data |-> JObj([text |-> JStr("m")]), timestamp |-> NetTime]

(* the hash of a vertex of the peer that the local store does not hold *)
UnknownHash ==
  calculateVertexHash(
    [tipReference1 |-> GENESIS_HASH, tipReference2 |-> GENESIS_HASH,
     payloadHash |-> calculatePayloadHash([RemotePayload EXCEPT !.timestamp = 0]),
     nodeId |-> RemoteNode, timestamp |-> 0])

(* the nonces that one build draws besides the nonce of the signed proof:
   the nonce inside the proof and the nonce of the vertex signature *)
BuildNonces ==
  [w1 |-> [proof |-> "p1", signature |-> "s1"],
   w2 |-> [proof |-> "p2", signature |-> "s2"]]

(* VertexBuilder.build of the peer; nonce is the nonce of the signed proof *)
RemoteVertex(tip, depth, nonce) ==
  LET payloadHash == calculatePayloadHash(RemotePayload)
      vertexHash == calculateVertexHash(
                      [tipReference1 |-> tip, tipReference2 |-> tip,
                       payloadHash |-> payloadHash, nodeId |-> RemoteNode,
                       timestamp |-> RemotePayload.timestamp])
  IN [vertexHash |-> vertexHash, nodeId |-> RemoteNode,
      tipReference1 |-> tip, tipReference2 |-> tip, depth |-> depth,
      payloadType |-> RemotePayload.type, payloadHash |-> payloadHash,
      payloadData |-> Stringify(RemotePayload),
      engagementProof |->
        generateEngagementProof(
          [nodeId |-> RemoteNode, eventType |-> "message",
           timestamp |-> RemotePayload.timestamp,
           nonce |-> BuildNonces[nonce].proof, workFactor |-> JUndefined],
          RemoteKey, NetTime, nonce),
      signature |-> signData(vertexHash, RemoteKey, NetTime,
                             BuildNonces[nonce].signature),
      cumulativeWeight |-> 1, isAnchored |-> "false",
      anchorTimestamp |-> NoDate, createdAt |-> NetTime]

(* the proof of v with another workFactor, signed by its author *)
WithWorkFactor(v, workFactor) ==
  [v EXCEPT !.engagementProof =
              signData([v.engagementProof.data EXCEPT !.workFactor = workFactor],
                       RemoteKey, NetTime, v.engagementProof.nonce)]

Variants(v) ==
  {v,
   [v EXCEPT !.engagementProof = Absent],
   [v EXCEPT !.signature = Absent],
   [v EXCEPT !.engagementProof = Absent, !.signature = Absent],
   [v EXCEPT !.engagementProof.signature.by = "otherKey"],
   [v EXCEPT !.signature.data = UnknownHash],
   [v EXCEPT !.vertexHash = UnknownHash],
   [v EXCEPT !.payloadData.timestamp = NetTime + 1],
   [v EXCEPT !.payloadData.data = JObj([text |-> JStr("x")])],
   [v EXCEPT !.payloadData.data = JObj([type |-> JStr("x")])],
   [v EXCEPT !.signature =
               signData(v.vertexHash, "otherKey", NetTime, v.signature.nonce)],
   [v EXCEPT !.engagementProof =
               generateEngagementProof(
                 [nodeId |-> "other", eventType |-> "message",
                  timestamp |-> NetTime, nonce |-> v.engagementProof.data.nonce,
                  workFactor |-> JUndefined],
                 "otherKey", NetTime, v.engagementProof.nonce)],
   WithWorkFactor(v, JNum(5)),
   WithWorkFactor(v, JStr("2")),
   [v EXCEPT !.payloadData = Absent]}

(* the vertices as VertexBuilder.build made them *)
BuiltVertices ==
  {RemoteVertex(tip, depth, nonce) :
     tip \in {LocalVertex.vertexHash, UnknownHash},
     depth \in {0, 1}, nonce \in {"w1", "w2"}}

(* one built vertex with its damaged variants, and the other built vertices *)
RemoteVertices ==
  Variants(RemoteVertex(LocalVertex.vertexHash, 1, "w1")) \cup BuiltVertices

Messages ==
  [type : {"relay", "verification"}, vertex : RemoteVertices \cup {Absent}]
    \cup {[type |-> "heartbeat", nodeId |-> RemoteNode, timestamp |-> NetTime]}

InitNet ==
  /\ store = {LocalVertex} /\ created = 0 /\ overlap = FALSE
  /\ procs = [h \in Handlers |-> Free]
  /\ now = NetTime
  /\ seenNonces = {} /\ nonceLog = <<>>
  /\ stats = NoStats /\ dispatched = <<>>
  /\ DagIdle

(* the clock of the receiver advances *)
NetTick ==
  /\ now < NetTime + MaxNetTicks * NetStepMs
  /\ now' = now + NetStepMs
  /\ UNCHANGED <<nonceVars, netVars, dagVars, storeVars>>

(* the messages of the peer arrive while the receiver's clock stands *)
NextNet ==
  \E h \in Handlers :
     \/ \E data \in Messages : Deliver(h, data, FALSE)
     \/ HandleStep(h)

SpecNet == InitNet /\ [][NextNet]_vars

CarriesVertex(d) == d.data.type \in {"relay", "verification"}

(* C5: every relay or verification message handed to the handlers carried
   a vertex with an engagement proof that verified and whose nonce had not
   been seen, and with a signature that verified over the recomputed vertex
   hash; none lacked either field. *)
C5_DispatchedWereVerified ==
  \A k \in DOMAIN dispatched :
     CarriesVertex(dispatched[k]) =>
       LET vertex == dispatched[k].data.vertex
           call == procs[dispatched[k].by]
       IN /\ vertex.engagementProof # Absent
          /\ vertex.signature # Absent
          /\ call.isValid
          /\ call.recorded
          /\ SignatureChecksPass(vertex)

(* C6: every remote vertex handed to the handlers passed isValidDAG together
   with the local vertex set: its parents are known, it lies deeper than
   them and it conflicts with no stored vertex. *)
C6_DispatchedWereValidated ==
  \A k \in DOMAIN dispatched :
     CarriesVertex(dispatched[k]) =>
       \A vertices \in Orders(store \cup {dispatched[k].data.vertex}) :
          isValidDAG(vertices)

(***************************************************************************)
(* The three sources of local vertices: relayMessage, verifyMessage and    *)
(* the heartbeat timer.                                                    *)
(***************************************************************************)
RelayData ==                                    \* messageData arguments
  {JObj([text |-> JStr("a")]), JObj([text |-> JStr("b")])}

RelayMessage ==
  \E data \in RelayData :
     StartCreate([type |-> "message", data |-> data, timestamp |-> now])

VerifyMessage ==
  \E vertexHash \in HashesOf(store) \cup {GENESIS_HASH}, isValid \in BOOLEAN :
     StartCreate([type |-> "verification",
                  data |-> JObj([targetVertexHash |-> JStr(vertexHash),
                                 isValid |-> JBool(isValid),
                                 timestamp |-> JNum(now)]),
                  timestamp |-> now])

(* the callback of the heartbeat timer up to the end of selectTips *)
Heartbeat ==
  StartCreate([type |-> "engagement",
               data |-> JObj([eventType |-> JStr("heartbeat"),
                              timestamp |-> JNum(now),
                              peersConnected |-> JNum(getPeerCount(stats))]),
               timestamp |-> now])

(* the listener of 'peer:connect' *)
PeerConnect ==
  /\ LET existing == PeerStatsOf(stats, fromPeerId)
     IN stats' = SetStats(stats, fromPeerId,
                          [connected |-> TRUE,
                           messagesSent |-> existing.messagesSent,
                           messagesReceived |-> existing.messagesReceived])
  /\ UNCHANGED <<now, dispatched, storeVars, dagVars, nonceVars>>

(* the listener of 'peer:disconnect' *)
PeerDisconnect ==
  /\ stats' = IF fromPeerId \in DOMAIN stats
              THEN [stats EXCEPT ![fromPeerId].connected = FALSE]
              ELSE stats
  /\ UNCHANGED <<now, dispatched, storeVars, dagVars, nonceVars>>

MaxCreateClock == 1               \* the clock of the creations runs 0..MaxCreateClock (ms)

CreateTick ==
  /\ now < MaxCreateClock
  /\ now' = now + 1
  /\ UNCHANGED <<storeVars, dagVars, nonceVars, netVars>>

NextCreate ==
  \/ RelayMessage \/ VerifyMessage \/ Heartbeat
  \/ CreateAdd \/ CreatePublish
  \/ PeerConnect \/ PeerDisconnect
  \/ CreateTick

SpecCreate == Init /\ [][NextCreate]_vars

(* C11: no two stored vertices have the same payloadHash and different
   (tipReference1, tipReference2) pairs. *)
C11_NoConflictingPayloadApprovals ==
  \A v, w \in store :
     v.payloadHash = w.payloadHash
       => /\ v.tipReference1 = w.tipReference1
          /\ v.tipReference2 = w.tipReference2

(* C12: on a vertex set without unanchored vertices selectTips returns the
   genesis sentinel for both tips and depth 0, and the hash of an anchored
   vertex is never returned as a tip. *)
C12_AnchoredNeverSelected ==
  result.op = "selectTips" =>
    \A k \in DOMAIN result.calls :
       LET r == result.calls[k]
           anchored == {input[i].vertexHash :
                          i \in {j \in DOMAIN input : ~ IsUnanchored(input[j])}}
       IN r # Threw =>
            /\ (\A i \in DOMAIN input : ~ IsUnanchored(input[i]))
                  => r = [tip1Hash |-> GENESIS_HASH, tip2Hash |-> GENESIS_HASH,
                          depth |-> 0]
            /\ r.tip1Hash \notin anchored
            /\ r.tip2Hash \notin anchored

(* C13: from the empty store selectTips gives genesis for both tips and
   depth 0; the vertex built from that and stored has depth 0 and genesis
   for both parents; with that one vertex stored, the next selectTips gives
   its hash for both tips and depth 1. *)
C13_FirstTwoSelections ==
  [][/\ \A op \in BagToSet(procs'.create) :
           procs'.create = procs.create (+) SetToBag({op}) =>
             /\ store = {} =>
                  op.tips = [tip1Hash |-> GENESIS_HASH,
                             tip2Hash |-> GENESIS_HASH, depth |-> 0]
             /\ Cardinality(store) = 1 =>
                  \A v \in store :
                     op.tips = [tip1Hash |-> v.vertexHash,
                                tip2Hash |-> v.vertexHash, depth |-> 1]
     /\ Cardinality(store') = 1 =>
          \A v \in store' :
             /\ v.depth = 0
             /\ v.tipReference1 = GENESIS_HASH
             /\ v.tipReference2 = GENESIS_HASH]_vars

(* the first vertex is stored and the second creation has selected its tips *)
C13_Witness ==
  /\ Cardinality(store) = 1
  /\ \E op \in BagToSet(procs.create) : op.tips.tip1Hash \in HashesOf(store)

(***************************************************************************)
(* Creations and weight updates.                                           *)
(***************************************************************************)
NextWeights ==
  \/ CreateSelect
  \/ CreateAdd
  \/ CreatePublish
  \/ UpdateRead
  \/ UpdateWrite
  \/ Tick

SpecWeights == Init /\ [][NextWeights]_vars

(* every vertex of S weighs 1 plus the stored weights of its direct approvers *)
WeightsSettled(S) ==
  \A v \in S :
     LET approvers == CHOOSE o \in Orders({w \in S :
                                  \/ w.tipReference1 = v.vertexHash
                                  \/ w.tipReference2 = v.vertexHash}) : TRUE
     IN v.cumulativeWeight =
          1 + SumSeq([i \in 1..Len(approvers) |-> approvers[i].cumulativeWeight])

(* the run op of updateCumulativeWeights ends in this step, and nothing
   else was in flight or changed the store since its read *)
UpdateAloneEnds(op) ==
  /\ procs = [NoneInFlight EXCEPT !.update = SetToBag({op})]
  /\ procs' = NoneInFlight
  /\ op.allVertices = store

(* C14: a run of updateCumulativeWeights leaves every stored vertex with 1
   plus the stored weights of its direct approvers, whatever the order in
   which the store returned the vertices, so that a second run changes
   nothing. *)
C14_UpdateIsIdempotent ==
  [][\A op \in BagToSet(procs.update) :
        UpdateAloneEnds(op) => WeightsSettled(store')]_vars

(* the vertexHashes of the vertices that reach h by following parent references *)
TransitiveApprovers(vertices, h) ==
  {vertices[i].vertexHash :
     i \in {j \in 1..Len(vertices) : h \in AncestorsOf(vertices, vertices[j].vertexHash)}}

(* C15: for every acyclic vertex set isValidDAG accepts, recalculateAllWeights
   maps each vertex to 1 plus the number of distinct vertices that
   transitively approve it. *)
C15_WeightCountsTransitiveApprovers ==
  (pc = "done" /\ result.op = "recalculateAllWeights" /\ isValidDAG(input)) =>
     \A i \in 1..Len(input) :
        result.weights[input[i].vertexHash] =
          1 + Cardinality(TransitiveApprovers(input, input[i].vertexHash))

(***************************************************************************)
(* Pruning of hand-built vertices: DAGUtils.pruneOldVertices applied to    *)
(* the array and to its own output, and DAGStorage.pruneOldVertices on a   *)
(* store holding the same vertices, at a fixed time.                       *)
(***************************************************************************)
PruneBody ==
  [tipReference1 : {GENESIS_HASH, H(1)}, tipReference2 : {GENESIS_HASH},
   depth : {0}, cumulativeWeight : {1},
   isAnchored : {"true", "false", ""},
   anchorTimestamp : {NoDate}, createdAt : {NoDate} \cup 0..MaxClock]

PruneCall ==
  /\ pc = "ready"
  /\ \E maxAge \in PruneAges :
        result' = [op |-> "pruneOldVertices", maxAge |-> maxAge,
                   returned |-> pruneOldVertices(input, maxAge, now)]
  /\ pc' = "done"
  /\ UNCHANGED <<input, seed, now, storeVars, nonceVars, netVars>>

(* pruneOldVertices on what the first call returned *)
PruneAgainCall ==
  /\ pc = "done" /\ result.op = "pruneOldVertices"
  /\ result' = [op |-> "pruneOldVertices again", maxAge |-> result.maxAge,
                first |-> result.returned,
                returned |-> pruneOldVertices(result.returned, result.maxAge, now)]
  /\ pc' = "again"
  /\ UNCHANGED <<input, seed, now, storeVars, nonceVars, netVars>>

InitPrune ==
  /\ \E n \in 1..2 : \E b \in [1..n -> PruneBody] : input = HandBuilt(n, b)
  /\ now \in 0..MaxClock
  /\ pc = "ready" /\ seed = NoSeed /\ result = NoResult
  /\ store = Range(input)
  /\ procs = NoneInFlight
  /\ created = 0 /\ overlap = FALSE
  /\ NonceIdle /\ NetIdle

NextPrune == PruneCall \/ PruneAgainCall \/ PruneRead \/ PruneWrite

SpecPrune == InitPrune /\ [][NextPrune]_vars

(* older than the cutoff now - maxAge *)
OlderThanCutoff(v, maxAge, t) == v.createdAt # NoDate /\ v.createdAt < t - maxAge

(* C16: pruneOldVertices returns, in their order and unmodified, exactly the
   vertices that are anchored or not older than now - maxAge: a vertex is
   removed if and only if it is unanchored and its createdAt is strictly
   older than the cutoff. *)
C16_PruneRemovesOnlyOlderUnanchored ==
  result.op = "pruneOldVertices" =>
    result.returned =
      SelectSeq(input, LAMBDA v :
         v.isAnchored = "true" \/ ~ OlderThanCutoff(v, result.maxAge, now))

(* C17: pruneOldVertices applied to its own output, at the same time and
   with the same maxAge, returns that output unchanged; and right after
   DAGStorage.pruneOldVertices has deleted, a second one with the same maxAge
   and no clock advance finds nothing to delete (returns 0). *)
C17_PruneIsIdempotent ==
  [][/\ (pc = "done" /\ pc' = "again") => result'.returned = result'.first
     /\ \A op \in BagToSet(procs.prune) :
           PruneEnds(op) => ToDelete(store', op.maxAgeMs, now) = {}]_vars

(* both prunings removed something and kept something, and were repeated *)
C17_Witness ==
  /\ result.op = "pruneOldVertices again"
  /\ Len(result.first) < Len(input) /\ Len(result.first) > 0
  /\ procs = NoneInFlight
  /\ store # Range(input) /\ store # {}

(***************************************************************************)
(* Delivery over time: the messages of the peer arrive while the           *)
(* receiver's clock advances and the cleanup timer runs.                   *)
(***************************************************************************)
DeliveryMessages ==
  [type : {"relay", "verification"},
   vertex : BuiltVertices
              \cup {[RemoteVertex(LocalVertex.vertexHash, 1, "w1")
                       EXCEPT !.signature = Absent]}]

NextDelivery ==
  \/ \E h \in Handlers :
        \/ \E data \in DeliveryMessages : Deliver(h, data, FALSE)
        \/ HandleStep(h)
  \/ HandlerCleanup
  \/ NetTick

SpecDelivery == InitNet /\ [][NextDelivery]_vars

(* the proof is at most five minutes from the receiver's clock and inside
   the replay guard's window *)
Fresh(vertex, t) ==
  /\ t - vertex.engagementProof.timestamp <= ProofMaxSkewMs
  /\ vertex.engagementProof.timestamp - t <= ProofMaxSkewMs
  /\ InWindow(vertex.engagementProof.timestamp, t)

(* the call h returns without dispatching in this step *)
DroppedNow(h) == procs[h].pc \notin Ended /\ procs'[h].pc = "dropped"

(* C18: a vertex made by VertexBuilder.build and delivered unmodified passes
   the hash and signature checks, and its call dispatches it unless the
   proof was no longer fresh when verifyEngagementProof or hasSeenNonce read
   the clock, or the replay guard had recorded its nonce. *)
C18_BuiltVertexIsAccepted ==
  [][/\ \A vertex \in BuiltVertices : SignatureChecksPass(vertex)
     /\ \A h \in Handlers :
          (/\ DroppedNow(h)
           /\ procs'[h].data \in [type : {"relay", "verification"},
                                  vertex : BuiltVertices])
            => LET vertex == procs[h].data.vertex
               IN /\ procs[h].pc = "replay"
                  /\ \/ ~ Fresh(vertex, procs[h].verifiedAt)
                     \/ ~ Fresh(vertex, now)
                     \/ Recorded(seenNonces, vertex.engagementProof.nonce)]_vars

(* an unmodified vertex was dispatched after the clock had advanced *)
C18_Witness ==
  \E k \in DOMAIN dispatched :
     /\ CarriesVertex(dispatched[k])
     /\ dispatched[k].data.vertex \in BuiltVertices
     /\ dispatched[k].at > NetTime

(* C19: a relay message whose payloadData was altered after the author
   computed payloadHash is dropped: every dispatched relay message that
   carries payloadData carries the payload its author hashed. *)
C19_AlteredPayloadIsDropped ==
  \A k \in DOMAIN dispatched :
     (/\ CarriesVertex(dispatched[k])
      /\ dispatched[k].data.type = "relay"
      /\ dispatched[k].data.vertex.payloadData # Absent)
       => dispatched[k].data.vertex.payloadData = RemotePayload

(* C20: a call hasSeenNonce(n, t) whose t is older than now - maxAge or more
   than 60 seconds after now returns true and leaves the nonce map as it
   was; when n was not recorded at that call, the next call with n and an
   in-window timestamp returns false. *)
C20_TimestampRejectionNotRecorded ==
  [][Len(nonceLog') = Len(nonceLog) + 1 =>
       LET e == nonceLog'[Len(nonceLog')]
       IN /\ ~ InWindow(e.timestamp, e.at)
               => (e.returned /\ seenNonces' = seenNonces)
          /\ (/\ InWindow(e.timestamp, e.at)
              /\ \E i \in DOMAIN nonceLog :
                    /\ nonceLog[i].nonce = e.nonce
                    /\ ~ nonceLog[i].recorded
                    /\ ~ InWindow(nonceLog[i].timestamp, nonceLog[i].at)
                    /\ \A j \in (i + 1)..Len(nonceLog) :
                          nonceLog[j].nonce # e.nonce)
               => ~ e.returned]_vars

(* a nonce was rejected for its timestamp alone and accepted afterwards *)
C20_Witness ==
  \E i, j \in DOMAIN nonceLog :
     /\ i < j
     /\ nonceLog[j].nonce = nonceLog[i].nonce
     /\ ~ nonceLog[i].recorded
     /\ ~ InWindow(nonceLog[i].timestamp, nonceLog[i].at)
     /\ nonceLog[i].returned
     /\ InWindow(nonceLog[j].timestamp, nonceLog[j].at)
     /\ ~ nonceLog[j].returned

(***************************************************************************)
(* handleIncomingMessage with its exceptions: raw messages that make the   *)
(* try block throw, and topic handlers that throw.                         *)
(***************************************************************************)
(* the raw messages of one peer: one built vertex and its damaged variants,
   a message without vertex, a heartbeat, and bytes that are not JSON *)
RawMessages ==
  [type : {"relay"},
   vertex : Variants(RemoteVertex(LocalVertex.vertexHash, 1, "w1")) \cup {Absent}]
    \cup {[type |-> "heartbeat", nodeId |-> RemoteNode, timestamp |-> NetTime]}
    \cup {Garbage}

(* gossipsub delivers raw messages to a node with one topic handler *)
NextReceive ==
  \/ \E h \in Handlers :
        \/ \E raw \in RawMessages, handlerThrows \in BOOLEAN :
              Deliver(h, raw, handlerThrows)
        \/ HandleStep(h)
  \/ HandlerCleanup
  \/ NetTick

SpecReceive == InitNet /\ [][NextReceive]_vars

(* C21: handleIncomingMessage never throws or rejects, whatever the message
   and whatever the topic handler does, and a call that ends without
   dispatching changes no statistics and calls no handler. *)
C21_ReceiveNeverThrows ==
  [][\A h \in Handlers :
        (procs[h].pc \notin Ended /\ procs'[h].pc \in Ended)
          => /\ ~ procs'[h].thrown
             /\ procs'[h].pc = "dropped"
                  => (stats' = stats /\ dispatched' = dispatched)]_vars

(* an undecodable message was handled and dropped *)
C21_Witness ==
  \E h \in Handlers : procs[h].pc = "dropped" /\ procs[h].data = Garbage

(* C22: in every branch of selectTips the returned depth is strictly greater
   than the depth of every vertex whose hash is returned as tip1 or tip2, so
   a vertex built from the selection is deeper than both of its parents. *)
C22_DepthExceedsBothTips ==
  result.op = "selectTips" =>
    \A k \in DOMAIN result.calls :
       LET r == result.calls[k]
       IN r # Threw =>
            \A i \in DOMAIN input :
               input[i].vertexHash \in {r.tip1Hash, r.tip2Hash}
                 => r.depth > input[i].depth

(* two walks ended on different vertices, the second one the deeper *)
C22_Witness ==
  /\ result.op = "selectTips"
  /\ \E k \in DOMAIN result.calls, i, j \in DOMAIN input :
        LET r == result.calls[k]
        IN /\ r # Threw
           /\ r.tip1Hash = input[i].vertexHash
           /\ r.tip2Hash = input[j].vertexHash
           /\ input[i].depth < input[j].depth
           /\ r.depth = input[j].depth + 1

(***************************************************************************)
(* One walk of selectTips at a time: the walks are made over the           *)
(* unanchored vertices of the input, the first with seededRandom(seed),    *)
(* the second with seededRandom(seed * 1.618).                             *)
(***************************************************************************)
(* the entry draws of a walk that fall inside the array *)
EntryDraws(vertices, rng) ==
  {e \in FloorDraws(rng, Min(EntryWindow, Len(vertices))) :
     Len(vertices) - e.value \in 1..Len(vertices)}

(* performRandomWalk with the way it ended: at a vertex without valid
   approvers (capped FALSE), at the step cap (capped TRUE), or Threw *)
WalkOutcomes(vertices, rng) ==
  LET entries == FloorDraws(rng, Min(EntryWindow, Len(vertices)))
      inside == EntryDraws(vertices, rng)
      start == {[current |-> vertices[Len(vertices) - e.value], rng |-> e.rng] :
                  e \in inside}
      st == WalkSteps(vertices, [frontier |-> start, done |-> {}], maxSteps)
  IN {[returned |-> v, capped |-> FALSE] : v \in st.done}
       \cup {[returned |-> f.current, capped |-> TRUE] : f \in st.frontier}
       \cup (IF inside # entries THEN {Threw} ELSE {})

(* three vertices, newest first, anchored or not *)
WalkBody3 ==
  [tipReference1 : {GENESIS_HASH, H(2), H(3)},
   tipReference2 : {GENESIS_HASH, H(2), H(3)},
   depth : {1}, cumulativeWeight : {1},
   isAnchored : {"true", "false"}, anchorTimestamp : {NoDate}, createdAt : {1}]

Unanchored(vertices) == SelectSeq(vertices, IsUnanchored)

WalkCall ==
  /\ pc = "ready"
  /\ Len(Unanchored(input)) >= 2
  /\ \E walk \in {1, 2} :
       LET rng == IF walk = 1 THEN FirstRng(seed) ELSE SecondRng(seed)
       IN \E o \in WalkOutcomes(Unanchored(input), rng) :
             result' = [op |-> "performRandomWalk", walk |-> walk, outcome |-> o]
  /\ pc' = "done"
  /\ UNCHANGED <<input, seed, now, storeVars, nonceVars, netVars>>

InitWalk ==
  /\ \/ \E b \in [1..2 -> TipsBody2] : input = HandBuilt(2, b)
     \/ \E b \in [1..3 -> WalkBody3] : NewestFirst(b) /\ input = HandBuilt(3, b)
  /\ seed \in Seeds
  /\ pc = "ready" /\ result = NoResult
  /\ now = 0 /\ StoreIdle /\ NonceIdle /\ NetIdle

SpecWalk == InitWalk /\ [][WalkCall]_vars

(* C23: a walk that ends before the step cap returns a vertex that no
   vertex of the unanchored set names as a parent. *)
C23_EarlyEndIsUnapproved ==
  (/\ result.op = "performRandomWalk"
   /\ result.outcome # Threw
   /\ ~ result.outcome.capped)
    => ApproverHashes(Unanchored(input), result.outcome.returned.vertexHash) = {}

(* C24: with at least two unanchored vertices, cycles among the parent
   references included, and any integer seed or none, each walk of
   selectTips returns a vertex of the unanchored set. *)
C24_WalkReturnsUnanchoredVertex ==
  result.op = "performRandomWalk" =>
     /\ result.outcome # Threw
     /\ \E i \in DOMAIN Unanchored(input) :
           Unanchored(input)[i] = result.outcome.returned

(***************************************************************************)
(* The entry point of a walk when the tips are selected through            *)
(* DAGStorage.selectTips on a store of hand-built vertices.                *)
(***************************************************************************)
MaxStored == 12                   \* vertices in the store

(* n vertices on genesis, the i-th created at time i or, paired, two in
   each millisecond *)
StoredAt(n, anchoredNewest, paired) ==
  {[vertexHash |-> H(i), tipReference1 |-> GENESIS_HASH,
    tipReference2 |-> GENESIS_HASH, payloadHash |-> P(i), depth |-> 0,
    cumulativeWeight |-> 1,
    isAnchored |-> IF anchoredNewest /\ i = n THEN "true" ELSE "false",
    anchorTimestamp |-> NoDate,
    createdAt |-> IF paired THEN (i + 1) \div 2 ELSE i] : i \in 1..n}

(* DAGStorage.selectTips as far as the entry point of one of the two walks *)
EntryCall ==
  /\ pc = "ready"
  /\ \E recent \in getRecentVertices(store, RecentLimit) :
        LET unanchored == Unanchored(recent)
        IN /\ Len(unanchored) >= 2
           /\ \E walk \in {1, 2}, e \in EntryDraws(unanchored, Unseeded) :
                 result' = [op |-> "walk entry", walk |-> walk,
                            entry |-> unanchored[Len(unanchored) - e.value]]
  /\ pc' = "done"
  /\ UNCHANGED <<input, seed, now, storeVars, nonceVars, netVars>>

InitEntry ==
  /\ \E n \in 2..MaxStored, anchoredNewest \in BOOLEAN, paired \in BOOLEAN :
        store = StoredAt(n, anchoredNewest, paired)
  /\ procs = <<>> /\ created = 0 /\ overlap = FALSE
  /\ pc = "ready" /\ input = <<>> /\ seed = NoSeed /\ result = NoResult
  /\ now = MaxStored /\ NonceIdle /\ NetIdle

SpecEntry == InitEntry /\ [][EntryCall]_vars

(* C25: a walk started through DAGStorage.selectTips enters at one of the
   min(10, |U|) most recently created unanchored vertices presented. *)
C25_EntryAmongMostRecent ==
  result.op = "walk entry" =>
     \A recent \in getRecentVertices(store, RecentLimit) :
        LET unanchored == Unanchored(recent)
            newer == {i \in DOMAIN unanchored :
                        unanchored[i].createdAt > result.entry.createdAt}
        IN Cardinality(newer) < Min(EntryWindow, Len(unanchored))

(***************************************************************************)
(* The six invariants of the data model, stated on the vertex set.         *)
(***************************************************************************)
ReferencesResolve(vertices) ==
  \A i \in 1..Len(vertices) :
     {vertices[i].tipReference1, vertices[i].tipReference2}
        \subseteq Hashes(vertices) \cup {GENESIS_HASH}

DeeperThanParents(vertices) ==
  \A i, j \in 1..Len(vertices) :
     vertices[j].vertexHash \in
         {vertices[i].tipReference1, vertices[i].tipReference2} \ {GENESIS_HASH}
       => vertices[i].depth > vertices[j].depth

AnchoredBeforeCreatedAny(vertices) ==
  \E i \in 1..Len(vertices) :
     /\ vertices[i].anchorTimestamp # NoDate /\ vertices[i].createdAt # NoDate
     /\ vertices[i].anchorTimestamp < vertices[i].createdAt

SixInvariants(vertices) ==
  /\ ReferencesResolve(vertices)
  /\ ~ HasParentCycle(vertices)
  /\ DeeperThanParents(vertices)
  /\ ~ HasPayloadConflict(vertices)
  /\ ~ AnchoredOverUnanchoredParent(vertices)
  /\ ~ AnchoredBeforeCreatedAny(vertices)

(* C26: on vertex sets with distinct hashes isValidDAG returns true exactly
   when the set satisfies the six invariants, the anchor time being no
   earlier than the creation time for every vertex that has both. *)
C26_ValidIffSixInvariants ==
  (pc = "done" /\ result.op = "isValidDAG") =>
     (result.valid <=> SixInvariants(input))

(***************************************************************************)
(* Copies of one message handled at once.                                  *)
(***************************************************************************)
(* the messages of the calls: one built vertex and its damaged variants *)
ConcurrentMessages ==
  [type : {"relay"},
   vertex : Variants(RemoteVertex(LocalVertex.vertexHash, 1, "w1"))]

NextConcurrent ==
  \/ \E h \in Handlers :
        \/ \E data \in ConcurrentMessages : Deliver(h, data, FALSE)
        \/ HandleStep(h)
  \/ HandlerCleanup
  \/ NetTick

SpecConcurrent == InitNet /\ [][NextConcurrent]_vars

(* C27: of two copies of one valid relay message handled at once, at most
   one is dispatched. *)
C27_AtMostOneCopyDispatched ==
  \A i, j \in DOMAIN dispatched :
     (/\ i < j
      /\ dispatched[i].data = dispatched[j].data)
       => dispatched[i].data.vertex \notin BuiltVertices

(* both calls were given the same built vertex, both have ended, and one
   of them dispatched it *)
C27_Witness ==
  /\ procs["h1"].pc \in Ended /\ procs["h2"].pc \in Ended
  /\ procs["h1"].data = procs["h2"].data
  /\ procs["h1"].data.vertex \in BuiltVertices
  /\ {procs["h1"].pc, procs["h2"].pc} = {"done", "dropped"}
  /\ Len(dispatched) = 1

(* C28: a relay message dropped because its payload data is missing, its
   payload hash or vertex hash mismatches or its vertex signature is
   invalid leaves the NonceTracker as it was: its call recorded no nonce. *)
C28_SignatureDropLeavesNonces ==
  \A h \in Handlers :
     (/\ procs[h].pc = "dropped"
      /\ procs[h].data # Garbage
      /\ procs[h].data.type = "relay"
      /\ procs[h].data.vertex # Absent
      /\ procs[h].data.vertex.signature # Absent
      /\ ~ SignatureChecksPass(procs[h].data.vertex))
       => ~ procs[h].recorded

(* C29: a relay or verification vertex is dispatched only if the key that
   signed its vertex hash is the key that signed its engagement proof and
   the nodeId inside the proof is the vertex's nodeId. *)
C29_SignatureBoundToAuthor ==
  \A k \in DOMAIN dispatched :
     (/\ CarriesVertex(dispatched[k])
      /\ dispatched[k].data.vertex.engagementProof # Absent
      /\ dispatched[k].data.vertex.signature # Absent)
       => LET vertex == dispatched[k].data.vertex
          IN /\ vertex.signature.publicKey = vertex.engagementProof.publicKey
             /\ vertex.engagementProof.data.nodeId = vertex.nodeId

(***************************************************************************)
(* DAGUtils.isValidDAG of the simplified variant: reference existence and  *)
(* depth ordering only.  Both variants are applied to the same input.      *)
(***************************************************************************)
isValidDAGSimplified(vertices) ==
  IF Len(vertices) = 0 THEN TRUE
  ELSE IF ~ReferencesExist(vertices) THEN FALSE
  ELSE DepthOrdering(vertices)

ValidateBoth ==
  /\ pc = "ready"
  /\ pc' = "done"
  /\ result' = [op |-> "isValidDAG variants", full |-> isValidDAG(input),
                simplified |-> isValidDAGSimplified(input),
                cycles |-> hasCycles(input)]
  /\ UNCHANGED <<input, seed, now, storeVars, nonceVars, netVars>>

InitVariants ==
  /\ \/ \E n \in 1..3 : \E b \in [1..n -> ShapeBody] : input = HandBuilt(n, b)
     \/ \E b \in [1..2 -> ConflictBody2] : input = HandBuilt(2, b)
     \/ \E b \in [1..2 -> AnchorBody] : input = HandBuilt(2, b)
  /\ pc = "ready" /\ seed = NoSeed /\ result = NoResult
  /\ now = 0 /\ StoreIdle /\ NonceIdle /\ NetIdle

SpecVariants == InitVariants /\ [][ValidateBoth]_vars

(* C30: on vertex sets with distinct hashes the full isValidDAG returns true
   exactly when the simplified one does and the set has neither a payload
   conflict nor an anchoring violation; a set the simplified variant accepts
   has no cycle for the full variant's cycle check to find. *)
C30_VariantsDifferInConflictAndAnchoring ==
  result.op = "isValidDAG variants" =>
     /\ result.full <=> (/\ result.simplified
                         /\ ~ HasPayloadConflict(input)
                         /\ ~ AnchoredOverUnanchoredParent(input)
                         /\ ~ AnchoredBeforeCreated(input))
     /\ result.simplified => ~ result.cycles

(* a cycle among references that all resolve: rejected by both variants *)
C30_Witness ==
  /\ result.op = "isValidDAG variants"
  /\ result.cycles /\ HasParentCycle(input) /\ ReferencesExist(input)
  /\ ~ result.simplified /\ ~ result.full

====
